---- MODULE Spec2Model ----
(***************************************************************************)
(* A model of the Gaana relay (src/src/index.ts): the pagination planner   *)
(* getPagination, the link decoder decryptLink, the result windowers and   *)
(* the listing handlers that combine them.                                 *)
(*                                                                         *)
(* Strings are sequences of character codes (ASCII), so that the code's    *)
(* character-level operations (parseInt, substring, the printable filter,  *)
(* base64) are modelled by what they do.  An optional string (a query      *)
(* parameter that may be absent) is a record [def, s].                     *)
(***************************************************************************)
EXTENDS Integers, Sequences, FiniteSets, TLC

VARIABLES
    pageStr,     \* getPagination's pageStr argument (optional string)
    limitStr,    \* getPagination's limitStr argument (optional string)
    batchSize,   \* getPagination's batchSize argument
    planned,     \* TRUE once getPagination has returned
    plan,        \* the value getPagination returned
    origin,      \* how the upstream made the token (what it encrypted, if anything)
    token,       \* decryptLink's encryptedData argument
    decoded,     \* decryptLink's outcome: not yet called, returned or raised
    q,           \* the query of the request the root handler serves
    pc,          \* the root handler: "received", "awaiting" (the fetch), "done"
    call,        \* the upstream call the handler issued (its query parameters)
    fetches,     \* how many upstream calls the handler has issued
    held,        \* what the handler holds across the await: the slicer and the plan
    upTotal,     \* how many items the upstream's whole result set has
    response,    \* the response the handler returned
    route,       \* the route the request came in on
    reply,       \* the JSON the upstream answered the call with
    trace,       \* the steps the handler has taken, in the order it took them
    op,          \* which payload function is applied: a decryptor or a windower
    payload,     \* the JSON value it is given
    winStart,    \* the windower's start argument
    winEnd,      \* the windower's end argument
    result,      \* its outcome: not yet called, returned or raised
    timer,       \* fetchJson's timeoutId: "armed", "cleared" or "fired"
    signal,      \* fetchJson's controller.signal: "clear" or "aborted"
    failure      \* the message of the error fetchJson threw

planVars == <<pageStr, limitStr, batchSize, planned, plan>>

decodeVars == <<origin, token, decoded>>

rootVars == <<q, pc, call, fetches, held, upTotal, response, route, reply, trace>>

jsonVars == <<op, payload, winStart, winEnd, result>>

timeVars == <<timer, signal, failure>>

vars == <<planVars, decodeVars, rootVars, jsonVars, timeVars>>

(***************************************************************************)
(* Bounds of the model.                                                    *)
(***************************************************************************)
MaxPage == 9
MaxLimit == 15
MaxNeg == 2
MaxBatch == 50
MaxRaw == 4
MaxRootPage == 4
MaxRootLimit == 16

(***************************************************************************)
(* JavaScript values.                                                      *)
(***************************************************************************)
Undefined == [def |-> FALSE, s |-> <<>>]

Str(s) == [def |-> TRUE, s |-> s]

NaN == [nan |-> TRUE, val |-> 0]

Num(n) == [nan |-> FALSE, val |-> n]

IsDigit(c) == c \in 48..57

\* The characters parseInt skips before the number (StrWhiteSpaceChar, ASCII).
IsWhiteSpace(c) == c \in {9, 10, 11, 12, 13, 32}

RECURSIVE SkipWhiteSpace(_)
SkipWhiteSpace(s) ==
    IF s # <<>> /\ IsWhiteSpace(s[1]) THEN SkipWhiteSpace(Tail(s)) ELSE s

RECURSIVE LeadingDigits(_)
LeadingDigits(s) ==
    IF s # <<>> /\ IsDigit(s[1]) THEN <<s[1]>> \o LeadingDigits(Tail(s)) ELSE <<>>

RECURSIVE DigitsValue(_)
DigitsValue(d) ==
    IF d = <<>> THEN 0
    ELSE 10 * DigitsValue(SubSeq(d, 1, Len(d) - 1)) + (d[Len(d)] - 48)

\* parseInt(s, 10): leading white space is skipped, one sign is read, then the
\* longest run of decimal digits; anything after it is ignored; no digit: NaN.
parseInt(s) ==
    LET t == SkipWhiteSpace(s)
        signed == t # <<>> /\ t[1] \in {43, 45}
        neg == t # <<>> /\ t[1] = 45
        d == LeadingDigits(IF signed THEN Tail(t) ELSE t)
    IN  IF d = <<>> THEN NaN
        ELSE Num(IF neg THEN 0 - DigitsValue(d) ELSE DigitsValue(d))

\* a || b on an optional string: undefined and '' are falsy.
OrStr(a, b) == IF a.def /\ a.s # <<>> THEN a.s ELSE b

\* a || b on a number: NaN and 0 (and -0) are falsy.
OrNum(a, b) == IF a.nan \/ a.val = 0 THEN b ELSE a.val

RECURSIVE NatToString(_)
NatToString(n) ==
    IF n < 10 THEN <<48 + n>> ELSE NatToString(n \div 10) \o <<48 + (n % 10)>>

\* Number.prototype.toString() of an integer.
toString(n) == IF n < 0 THEN <<45>> \o NatToString(0 - n) ELSE NatToString(n)

\* Math.floor(a / b) for b > 0.
MathFloorDiv(a, b) == a \div b

\* a % b of JavaScript for b > 0: the result takes the sign of the dividend.
JsRem(a, b) == IF a >= 0 THEN a % b ELSE 0 - ((0 - a) % b)

(***************************************************************************)
(* getPagination.                                                          *)
(***************************************************************************)
\* The client's page sent upstream as it is, and the window cut from 0.
getPagination_PagePassedThrough(pStr, lStr, bSize) ==
    LET limit == OrNum(parseInt(OrStr(lStr, <<49, 48>>)), 10)
        page == OrNum(parseInt(OrStr(pStr, <<48>>)), 0)
    IN  [gaanaPage |-> toString(page), sliceStart |-> 0, sliceEnd |-> limit]

\* A missing limit defaulting to the batch size.
getPagination_DefaultLimitIsBatch(pStr, lStr, bSize) ==
    LET limit == OrNum(parseInt(OrStr(lStr, toString(bSize))), bSize)
        page == OrNum(parseInt(OrStr(pStr, <<48>>)), 0)
        totalOffset == page * limit
        sliceStart == JsRem(totalOffset, bSize)
    IN  [gaanaPage |-> toString(MathFloorDiv(totalOffset, bSize)),
         sliceStart |-> sliceStart, sliceEnd |-> sliceStart + limit]

\* The window's end taken from the limit alone: sliceEnd = limit.
getPagination_EndIsLimit(pStr, lStr, bSize) ==
    LET limit == OrNum(parseInt(OrStr(lStr, <<49, 48>>)), 10)
        page == OrNum(parseInt(OrStr(pStr, <<48>>)), 0)
        totalOffset == page * limit
    IN  [gaanaPage |-> toString(MathFloorDiv(totalOffset, bSize)),
         sliceStart |-> JsRem(totalOffset, bSize), sliceEnd |-> limit]

getPagination(pStr, lStr, bSize) ==
    LET limit == OrNum(parseInt(OrStr(lStr, <<49, 48>>)), 10)
        page == OrNum(parseInt(OrStr(pStr, <<48>>)), 0)
        totalOffset == page * limit
        gaanaPage == toString(MathFloorDiv(totalOffset, bSize))
        sliceStart == JsRem(totalOffset, bSize)
        sliceEnd == sliceStart + limit
    IN  [gaanaPage |-> gaanaPage, sliceStart |-> sliceStart, sliceEnd |-> sliceEnd]

NoPlan == [gaanaPage |-> <<>>, sliceStart |-> 0, sliceEnd |-> 0]

(***************************************************************************)
(* Inputs of the planner: decimal numerals, absent values, and strings a   *)
(* client can send that are no numeral.                                    *)
(***************************************************************************)
\* '', 'x', '-', ' ', 'x1', '+', '-x', 'NaN', '.5'
UnparsableStrings ==
    { <<>>, <<120>>, <<45>>, <<32>>, <<120, 49>>, <<43>>, <<45, 120>>,
      <<78, 97, 78>>, <<46, 53>> }

\* '1x', ' 7', '07', '1.5', '+3', '2e3', '-1x', '00', '-0'
PrefixNumerals ==
    { <<49, 120>>, <<32, 55>>, <<48, 55>>, <<49, 46, 53>>, <<43, 51>>,
      <<50, 101, 51>>, <<45, 49, 120>>, <<48, 48>>, <<45, 48>> }

PageInputs ==
    {Undefined} \cup { Str(toString(n)) : n \in (0 - MaxNeg)..MaxPage }
        \cup { Str(s) : s \in UnparsableStrings \cup PrefixNumerals }

LimitInputs ==
    {Undefined} \cup { Str(toString(n)) : n \in (0 - MaxNeg)..MaxLimit }
        \cup { Str(s) : s \in UnparsableStrings \cup PrefixNumerals }

BatchSizes == 1..MaxBatch

(***************************************************************************)
(* Strings and byte buffers.                                               *)
(***************************************************************************)
\* s.substring(from) for 0 <= from.
Substring(s, from) == IF from >= Len(s) THEN <<>> ELSE SubSeq(s, from + 1, Len(s))

StartsAt(s, pat, i) ==
    /\ i + Len(pat) <= Len(s)
    /\ \A j \in 1..Len(pat) : s[i + j] = pat[j]

\* s.includes(pat)
Includes(s, pat) == \E i \in 0..Len(s) : StartsAt(s, pat, i)

\* s.indexOf(pat), 0-based, for a pat that s includes: the first occurrence.
IndexOf(s, pat) ==
    CHOOSE i \in 0..Len(s) :
        StartsAt(s, pat, i) /\ \A k \in 0..(i - 1) : ~StartsAt(s, pat, k)

RECURSIVE BitXor(_, _)
BitXor(a, b) ==
    IF a = 0 THEN b
    ELSE IF b = 0 THEN a
    ELSE 2 * BitXor(a \div 2, b \div 2) + ((a + b) % 2)

\* The value of a base64 character, standard or URL-safe alphabet; -1: none.
B64Value(c) ==
    IF c \in 65..90 THEN c - 65
    ELSE IF c \in 97..122 THEN c - 71
    ELSE IF c \in 48..57 THEN c + 4
    ELSE IF c \in {43, 45} THEN 62
    ELSE IF c \in {47, 95} THEN 63
    ELSE 0 - 1

IsB64Char(c) == B64Value(c) >= 0

\* The sextets the decoder reads: it skips every character that is no base64
\* character and stops at the first '='.
B64Sextets(s) ==
    LET stops == { i \in 1..Len(s) : s[i] = 61 }
        stop == IF stops = {} THEN Len(s) + 1
                ELSE CHOOSE i \in stops : \A k \in stops : i <= k
        kept == SelectSeq(SubSeq(s, 1, stop - 1), IsB64Char)
    IN  [i \in 1..Len(kept) |-> B64Value(kept[i])]

\* The bytes of a run of sextets: three per group of four, and one or two for a
\* last group of two or three.
B64Bytes(sx) ==
    LET n == Len(sx)
        nbytes == 3 * (n \div 4) + (IF n % 4 >= 2 THEN (n % 4) - 1 ELSE 0)
        at(k) == IF k <= n THEN sx[k] ELSE 0
        byte(i) ==
            LET g == 4 * ((i - 1) \div 3)
            IN  CASE (i - 1) % 3 = 0 -> 4 * at(g + 1) + (at(g + 2) \div 16)
                  [] (i - 1) % 3 = 1 -> 16 * (at(g + 2) % 16) + (at(g + 3) \div 4)
                  [] OTHER -> 64 * (at(g + 3) % 4) + at(g + 4)
    IN  [i \in 1..nbytes |-> byte(i)]

\* Buffer.from(s, 'base64'): lenient, never raises.
BufferFromBase64(s) == B64Bytes(B64Sextets(s))

(***************************************************************************)
(* The cipher.  DEC_KEY and DEC_IV are the code's constants.  The AES-128  *)
(* block transformation is stood in for by a keyed bijection on 16-byte    *)
(* blocks (a byte substitution under the key byte, and a rotation of the   *)
(* block); the CBC chaining and the block alignment are the cipher mode's. *)
(***************************************************************************)
DEC_IV == <<120, 67, 52, 100, 109, 86, 74, 65, 113, 49, 52, 66, 102, 110, 116, 88>>

DEC_KEY == <<103, 121, 49, 116, 35, 98, 64, 106, 108, 40, 98, 36, 119, 116, 109, 101>>

BlockSize == 16

\* The inverse of the block substitution: 183 * 7 = 1 (mod 256).
InvSubByte(y, k) == BitXor((183 * (y + 256 - k)) % 256, k)

BlockDecryptByte(ct, base, m, key) ==
    LET j == ((m + 14) % 16) + 1 IN InvSubByte(ct[base + j], key[j])

\* aes-128-cbc over whole blocks: P_i = D(C_i) xor C_(i-1), with C_0 = iv.
CbcDecrypt(ct, key, iv) ==
    [i \in 1..Len(ct) |->
        LET base == BlockSize * ((i - 1) \div BlockSize)
            m == ((i - 1) % BlockSize) + 1
        IN  BitXor(BlockDecryptByte(ct, base, m, key),
                   IF base = 0 THEN iv[m] ELSE ct[i - BlockSize])]

\* Buffer.toString('utf-8'): an ASCII byte is its character; every other byte
\* is part of a character that is not ASCII (or of U+FFFD).
Utf8ToString(bytes) ==
    [i \in 1..Len(bytes) |-> IF bytes[i] < 128 THEN bytes[i] ELSE 65533]

IsPrintable(c) == c \in 32..126

\* rawText.replace(/[^\x20-\x7E]/g, '')
StripNonPrintable(s) == SelectSeq(s, IsPrintable)

\* 'hls/'
HlsMarker == <<104, 108, 115, 47>>

\* 'https://vodhlsgaana-ebw.akamaized.net/'
CdnOrigin ==
    <<104, 116, 116, 112, 115, 58, 47, 47, 118, 111, 100, 104, 108, 115, 103,
      97, 97, 110, 97, 45, 101, 98, 119, 46, 97, 107, 97, 109, 97, 105, 122,
      101, 100, 46, 110, 101, 116, 47>>

(***************************************************************************)
(* decryptLink.  An outcome is a returned string or a raised exception.    *)
(***************************************************************************)
Return(s) == [threw |-> FALSE, ret |-> s]

Throw == [threw |-> TRUE, ret |-> <<>>]

MinTokenLen == 20

IvMarkerLen == 16

\* The recovered text to its result: the rewrite to the CDN origin, the text,
\* or the token when nothing is left.
LinkFromText(rawText, encryptedData) ==
    IF Includes(rawText, HlsMarker)
    THEN LET pathStart == IndexOf(rawText, HlsMarker)
             cleanPath == Substring(rawText, pathStart)
         IN  CdnOrigin \o cleanPath
    ELSE IF rawText # <<>> THEN rawText ELSE encryptedData

\* The search before the filter.
TextOfDecrypted_SearchFirst(decrypted, encryptedData) ==
    LET raw == Utf8ToString(decrypted)
    IN  IF Includes(raw, HlsMarker)
        THEN CdnOrigin \o StripNonPrintable(Substring(raw, IndexOf(raw, HlsMarker)))
        ELSE IF StripNonPrintable(raw) # <<>> THEN StripNonPrintable(raw)
        ELSE encryptedData

\* decrypted.toString('utf-8'), then the printable filter, then the search.
TextOfDecrypted(decrypted, encryptedData) ==
    LinkFromText(StripNonPrintable(Utf8ToString(decrypted)), encryptedData)

\* decipher.update(ciphertext) and decipher.final() with auto padding off:
\* final() raises on a last block that is not whole.
Decipher(ciphertext) ==
    IF Len(ciphertext) % BlockSize # 0 THEN Throw
    ELSE Return(CbcDecrypt(ciphertext, DEC_KEY, DEC_IV))

\* The offset left out: encryptedData.substring(16).
CiphertextB64_NoOffset(encryptedData, offset) == Substring(encryptedData, IvMarkerLen)

\* encryptedData.substring(offset + 16)
CiphertextB64(encryptedData, offset) == Substring(encryptedData, offset + IvMarkerLen)

\* The body without the isNaN test: NaN + 16 is NaN, and substring(NaN) is
\* substring(0).
decryptLinkTry_NoNaNTest(encryptedData) ==
    IF encryptedData = <<>> \/ Len(encryptedData) < MinTokenLen
    THEN Return(encryptedData)
    ELSE LET offset == parseInt(<<encryptedData[1]>>)
             ciphertext ==
                 BufferFromBase64(IF offset.nan THEN encryptedData
                                  ELSE CiphertextB64(encryptedData, offset.val))
             decrypted == Decipher(ciphertext)
         IN  IF decrypted.threw THEN Throw
             ELSE Return(TextOfDecrypted(decrypted.ret, encryptedData))

\* The body of the try block.
decryptLinkTry(encryptedData) ==
    IF encryptedData = <<>> \/ Len(encryptedData) < MinTokenLen
    THEN Return(encryptedData)
    ELSE LET offset == parseInt(<<encryptedData[1]>>)
         IN  IF offset.nan THEN Return(encryptedData)
             ELSE LET ciphertext ==
                          BufferFromBase64(CiphertextB64(encryptedData, offset.val))
                      decrypted == Decipher(ciphertext)
                  IN  IF decrypted.threw THEN Throw
                      ELSE Return(TextOfDecrypted(decrypted.ret, encryptedData))

\* The body with no catch around it.
decryptLink_NoCatch(encryptedData) == decryptLinkTry(encryptedData)

\* try { ... } catch (e) { return encryptedData }
decryptLink(encryptedData) ==
    LET r == decryptLinkTry(encryptedData)
    IN  IF r.threw THEN Return(encryptedData) ELSE r

(***************************************************************************)
(* The upstream provider's side: how a token is made from a text.  The     *)
(* text is padded to whole blocks (PKCS#7), encrypted under the same key   *)
(* and iv, base64-encoded, and prefixed by the offset digit and offset+15  *)
(* more characters (the offset scheme).                                    *)
(***************************************************************************)
SubByte(x, k) == (7 * BitXor(x, k) + k) % 256

BlockEncrypt(p, key) == [j \in 1..BlockSize |-> SubByte(p[(j % 16) + 1], key[j])]

RECURSIVE CbcEncrypt(_, _, _)
CbcEncrypt(pt, key, prev) ==
    IF pt = <<>> THEN <<>>
    ELSE LET c == BlockEncrypt([j \in 1..BlockSize |-> BitXor(pt[j], prev[j])], key)
         IN  c \o CbcEncrypt(SubSeq(pt, BlockSize + 1, Len(pt)), key, c)

Pkcs7Pad(bytes) ==
    LET n == BlockSize - (Len(bytes) % BlockSize)
    IN  bytes \o [j \in 1..n |-> n]

B64Char(v) ==
    IF v < 26 THEN 65 + v
    ELSE IF v < 52 THEN 71 + v
    ELSE IF v < 62 THEN v - 4
    ELSE IF v = 62 THEN 43 ELSE 47

\* Three bytes to four characters; a last group of one or two bytes is padded
\* with '='.
Base64Encode(b) ==
    LET n == Len(b)
        at(k) == IF k <= n THEN b[k] ELSE 0
        char(i) ==
            LET g == 3 * ((i - 1) \div 4)
            IN  CASE (i - 1) % 4 = 0 -> B64Char(at(g + 1) \div 4)
                  [] (i - 1) % 4 = 1 -> B64Char(16 * (at(g + 1) % 4) + (at(g + 2) \div 16))
                  [] (i - 1) % 4 = 2 ->
                        IF g + 2 > n THEN 61
                        ELSE B64Char(4 * (at(g + 2) % 16) + (at(g + 3) \div 64))
                  [] OTHER -> IF g + 3 > n THEN 61 ELSE B64Char(at(g + 3) % 64)
    IN  [i \in 1..(4 * ((n + 2) \div 3)) |-> char(i)]

\* The offset digit and offset + 15 characters ('q'): what the decoder discards.
TokenPrefix(offset) == <<48 + offset>> \o [j \in 1..(offset + IvMarkerLen - 1) |-> 113]

MakeToken(offset, text) ==
    TokenPrefix(offset) \o Base64Encode(CbcEncrypt(Pkcs7Pad(text), DEC_KEY, DEC_IV))

(***************************************************************************)
(* JSON values.  Every value is a record of the same five fields, of which *)
(* its kind t uses one: n (a number, or a boolean as 1 or 0), s (a         *)
(* string), a (an array's elements) or o (an object's fields, in order,    *)
(* each [k, x]).  "undefined" is what reading a missing property gives.    *)
(***************************************************************************)
Json(t, n, s, a, o) == [t |-> t, n |-> n, s |-> s, a |-> a, o |-> o]

JNull == Json("null", 0, <<>>, <<>>, <<>>)

JUndefined == Json("undefined", 0, <<>>, <<>>, <<>>)

JBool(b) == Json("bool", IF b THEN 1 ELSE 0, <<>>, <<>>, <<>>)

JNum(n) == Json("num", n, <<>>, <<>>, <<>>)

JStr(s) == Json("str", 0, s, <<>>, <<>>)

JArr(a) == Json("arr", 0, <<>>, a, <<>>)

JObj(o) == Json("obj", 0, <<>>, <<>>, o)

Field(k, x) == [k |-> k, x |-> x]

\* !!v
Truthy(v) ==
    CASE v.t \in {"null", "undefined"} -> FALSE
      [] v.t \in {"bool", "num"} -> v.n # 0
      [] v.t = "str" -> v.s # <<>>
      [] OTHER -> TRUE

\* typeof v === 'object' (null included)
TypeofObject(v) == v.t \in {"obj", "arr", "null"}

HasKey(v, k) == v.t = "obj" /\ \E i \in 1..Len(v.o) : v.o[i].k = k

\* v[k] for a property name k (not an index): undefined unless v is an
\* object that has it.  Reading a property of null or undefined raises; the
\* callers below test for that first.
Get(v, k) ==
    IF HasKey(v, k)
    THEN v.o[CHOOSE i \in 1..Len(v.o) : v.o[i].k = k].x
    ELSE JUndefined

\* v[k] = x on an object v.
Set(v, k, x) ==
    IF HasKey(v, k)
    THEN JObj([i \in 1..Len(v.o) |-> IF v.o[i].k = k THEN Field(k, x) ELSE v.o[i]])
    ELSE JObj(Append(v.o, Field(k, x)))

\* The end taken as the last index kept.
JsSlice_EndInclusive(a, start, end) ==
    LET len == Len(a)
        clamp(i) == IF i < 0 THEN (IF len + i < 0 THEN 0 ELSE len + i)
                    ELSE (IF i > len THEN len ELSE i)
        from == clamp(start)
        to == clamp(end + 1)
    IN  IF to <= from THEN <<>> ELSE SubSeq(a, from + 1, to)

\* a.slice(start, end) on a sequence.
JsSlice(a, start, end) ==
    LET len == Len(a)
        clamp(i) == IF i < 0 THEN (IF len + i < 0 THEN 0 ELSE len + i)
                    ELSE (IF i > len THEN len ELSE i)
        from == clamp(start)
        to == clamp(end)
    IN  IF to <= from THEN <<>> ELSE SubSeq(a, from + 1, to)

(***************************************************************************)
(* traverseAndDecrypt.  The code mutates the payload in place; a payload   *)
(* parsed from JSON text is a tree, so the result is this rebuilt value.   *)
(***************************************************************************)
\* decryptLink on whatever a message field holds: only a string has the
\* length, [0] and substring the code reads; any other value comes back as
\* it is (through the NaN test or the catch).
decryptLinkValue(m) == IF m.t = "str" THEN JStr(decryptLink(m.s).ret) ELSE m

qualities == <<"auto", "high", "medium", "low">>

\* The tier tested instead of its message: if (tiers[quality]) ...
DecryptTier_NoMessageTest(tiers, quality) ==
    LET tier == Get(tiers, quality)
        message == Get(tier, "message")
    IN  IF Truthy(tier)
        THEN Set(tiers, quality, Set(tier, "message", decryptLinkValue(message)))
        ELSE tiers

\* if (tiers[quality]?.message) tiers[quality].message = decryptLink(...)
DecryptTier(tiers, quality) ==
    LET tier == Get(tiers, quality)
        message == Get(tier, "message")
    IN  IF Truthy(message)
        THEN Set(tiers, quality, Set(tier, "message", decryptLinkValue(message)))
        ELSE tiers

RECURSIVE DecryptTiersFrom(_, _)
\* The loop over the qualities, from the i-th on.
DecryptTiersFrom(tiers, i) ==
    IF i > Len(qualities) THEN tiers
    ELSE DecryptTiersFrom(DecryptTier(tiers, qualities[i]), i + 1)

\* for (const quality of qualities) ...
DecryptTiers(tiers) == DecryptTiersFrom(tiers, 1)

\* 'stream_url'
StreamUrlTag == <<115, 116, 114, 101, 97, 109, 95, 117, 114, 108>>

\* if (data.urls && typeof data.urls === 'object' && !Array.isArray(data.urls))
ShapeA(data) ==
    LET urls == Get(data, "urls")
    IN  IF Truthy(urls) /\ urls.t = "obj"
        THEN Set(data, "urls", DecryptTiers(urls))
        ELSE data

\* if (data.key === 'stream_url' && data.value && typeof data.value === 'object')
ShapeB(data) ==
    LET value == Get(data, "value")
    IN  IF Get(data, "key") = JStr(StreamUrlTag) /\ Truthy(value) /\ TypeofObject(value)
        THEN (IF value.t = "obj" THEN Set(data, "value", DecryptTiers(value)) ELSE data)
        ELSE data

RECURSIVE traverseAndDecrypt(_)
traverseAndDecrypt(data) ==
    IF ~Truthy(data) \/ ~TypeofObject(data) THEN data
    ELSE IF data.t = "arr"
    THEN JArr([i \in 1..Len(data.a) |-> traverseAndDecrypt(data.a[i])])
    ELSE LET shaped == ShapeB(ShapeA(data))
         IN  JObj([i \in 1..Len(shaped.o) |->
                      Field(shaped.o[i].k, traverseAndDecrypt(shaped.o[i].x))])

\* The calls of decryptLink that traverseAndDecrypt(data) makes, in order:
\* each is the path, from data, of the message it is given.  An array's
\* elements are its properties '0', '1', ...
RECURSIVE TierCallsFrom(_, _, _)
\* The calls of the loop over the qualities, from the i-th on.
TierCallsFrom(tiers, path, i) ==
    IF i > Len(qualities) THEN <<>>
    ELSE (IF Truthy(Get(Get(tiers, qualities[i]), "message"))
          THEN <<path \o <<qualities[i], "message">>>>
          ELSE <<>>)
             \o TierCallsFrom(tiers, path, i + 1)

\* The calls of the urls block.
ShapeACalls(data, path) ==
    IF Truthy(Get(data, "urls")) /\ Get(data, "urls").t = "obj"
    THEN TierCallsFrom(Get(data, "urls"), path \o <<"urls">>, 1)
    ELSE <<>>

\* The calls of the stream_url block.
ShapeBCalls(data, path) ==
    IF /\ Get(data, "key") = JStr(StreamUrlTag)
       /\ Truthy(Get(data, "value"))
       /\ Get(data, "value").t = "obj"
    THEN TierCallsFrom(Get(data, "value"), path \o <<"value">>, 1)
    ELSE <<>>

\* The own properties of an object or an array, in the order of for ... in.
Properties(data) ==
    IF data.t = "arr" THEN [i \in 1..Len(data.a) |-> Field(ToString(i - 1), data.a[i])]
    ELSE data.o

RECURSIVE traverseAndDecryptCalls_AnyMessage(_, _)
RECURSIVE ChildCalls_AnyMessage(_, _, _)
\* A traversal that also decrypts the message of any object that has one.
traverseAndDecryptCalls_AnyMessage(data, path) ==
    IF ~Truthy(data) \/ ~TypeofObject(data) THEN <<>>
    ELSE ShapeACalls(data, path)
             \o ShapeBCalls(ShapeA(data), path)
             \o (IF Truthy(Get(data, "message")) THEN <<path \o <<"message">>>> ELSE <<>>)
             \o ChildCalls_AnyMessage(Properties(ShapeB(ShapeA(data))), path, 1)

ChildCalls_AnyMessage(props, path, i) ==
    IF i > Len(props) THEN <<>>
    ELSE traverseAndDecryptCalls_AnyMessage(props[i].x, path \o <<props[i].k>>)
             \o ChildCalls_AnyMessage(props, path, i + 1)

RECURSIVE traverseAndDecryptCalls(_, _)
RECURSIVE ChildCalls(_, _, _)
\* The urls block, the stream_url block, then the loop over the properties.
traverseAndDecryptCalls(data, path) ==
    IF ~Truthy(data) \/ ~TypeofObject(data) THEN <<>>
    ELSE ShapeACalls(data, path)
             \o ShapeBCalls(ShapeA(data), path)
             \o ChildCalls(Properties(ShapeB(ShapeA(data))), path, 1)

\* for (const key in data) ... traverseAndDecrypt(data[key]), from the i-th
\* property on.
ChildCalls(props, path, i) ==
    IF i > Len(props) THEN <<>>
    ELSE traverseAndDecryptCalls(props[i].x, path \o <<props[i].k>>)
             \o ChildCalls(props, path, i + 1)

(***************************************************************************)
(* applySlice and applySliceToEntities.                                    *)
(***************************************************************************)
\* if (group.gd && Array.isArray(group.gd)) group.gd = group.gd.slice(start, end)
SliceGroup(group, start, end) ==
    LET gd == Get(group, "gd")
    IN  IF Truthy(gd) /\ gd.t = "arr"
        THEN Set(group, "gd", JArr(JsSlice(gd.a, start, end)))
        ELSE group

\* The first group alone: data.gr[0].gd = data.gr[0].gd.slice(start, end).
applySlice_FirstGroupOnly(data, start, end) ==
    IF ~Truthy(data) THEN Return(data)
    ELSE LET gr == Get(data, "gr")
         IN  IF Truthy(gr) /\ gr.t = "arr"
             THEN IF \E i \in 1..Len(gr.a) : gr.a[i].t = "null"
                  THEN Throw
                  ELSE Return(Set(data, "gr",
                           JArr([i \in 1..Len(gr.a) |->
                                   IF i = 1 THEN SliceGroup(gr.a[i], start, end)
                                   ELSE gr.a[i]])))
             ELSE Return(data)

\* Reading group.gd of a null group raises a TypeError.
applySlice(data, start, end) ==
    IF ~Truthy(data) THEN Return(data)
    ELSE LET gr == Get(data, "gr")
         IN  IF Truthy(gr) /\ gr.t = "arr"
             THEN IF \E i \in 1..Len(gr.a) : gr.a[i].t = "null"
                  THEN Throw
                  ELSE Return(Set(data, "gr",
                           JArr([i \in 1..Len(gr.a) |-> SliceGroup(gr.a[i], start, end)])))
             ELSE Return(data)

\* The window taken from the head of the list: entities.slice(0, end - start).
applySliceToEntities_FromZero(data, start, end) ==
    IF ~Truthy(data) THEN data
    ELSE LET entities == Get(data, "entities")
         IN  IF Truthy(entities) /\ entities.t = "arr"
             THEN Set(data, "entities", JArr(JsSlice(entities.a, 0, end - start)))
             ELSE data

\* The window left open at its end: entities.slice(start).
applySliceToEntities_NoEnd(data, start, end) ==
    IF ~Truthy(data) THEN data
    ELSE LET entities == Get(data, "entities")
         IN  IF Truthy(entities) /\ entities.t = "arr"
             THEN Set(data, "entities", JArr(JsSlice(entities.a, start, Len(entities.a))))
             ELSE data

applySliceToEntities(data, start, end) ==
    IF ~Truthy(data) THEN data
    ELSE LET entities == Get(data, "entities")
         IN  IF Truthy(entities) /\ entities.t = "arr"
             THEN Set(data, "entities", JArr(JsSlice(entities.a, start, end)))
             ELSE data

(***************************************************************************)
(* The root handler, app.get('/').  The sorting and country parameters are *)
(* passed to the upstream as they are and are left out.                    *)
(***************************************************************************)
getBatchSize(type) == IF type = "musiclabelalbums" THEN 50 ELSE 20

IsBlank(s) == \A i \in 1..Len(s) : IsWhiteSpace(s[i])

RECURSIVE SplitOn(_, _, _)
\* s.split('/') with the part read so far.
SplitOn(s, sep, part) ==
    IF s = <<>> THEN <<part>>
    ELSE IF s[1] = sep THEN <<part>> \o SplitOn(Tail(s), sep, <<>>)
    ELSE SplitOn(Tail(s), sep, Append(part, s[1]))

NotBlank(s) == ~IsBlank(s)

extractIdFromUrl(url) ==
    LET parts == SelectSeq(SplitOn(url, 47, <<>>), NotBlank)
    IN  IF Len(parts) > 0 THEN parts[Len(parts)] ELSE <<>>

\* '/song/', '/album/', '/music-label/'
SongMark == <<47, 115, 111, 110, 103, 47>>

AlbumMark == <<47, 97, 108, 98, 117, 109, 47>>

LabelMark == <<47, 109, 117, 115, 105, 99, 45, 108, 97, 98, 101, 108, 47>>

NoCall == [type |-> "none", key |-> <<>>, page |-> Undefined]

Call(type, key, page) == [type |-> type, key |-> key, page |-> page]

NoHeld == [slicer |-> "none", sliceStart |-> 0, sliceEnd |-> 0]

Held(slicer, p) == [slicer |-> slicer, sliceStart |-> p.sliceStart, sliceEnd |-> p.sliceEnd]

NoResponse == [status |-> 0, body |-> JUndefined]

\* c.json(body, status)
Respond(status, body) == [status |-> status, body |-> body]

\* { error: ... }; the text of the message is left out.
ErrorBody == JObj(<<Field("error", JStr(<<>>))>>)

\* The usage document.
DocumentationBody == JObj(<<Field("service", JStr(<<>>)), Field("status", JStr(<<>>))>>)

IsSet(v) == v.def /\ v.s # <<>>

\* The branch the handler takes, in its priority order.
Branch(query) ==
    IF IsSet(query.labels) THEN "labels"
    ELSE IF IsSet(query.artistssongsid) THEN "artistssongs"
    ELSE IF IsSet(query.artistsalbumsid) THEN "artistsalbums"
    ELSE IF IsSet(query.search) THEN "search"
    ELSE IF IsSet(query.link) THEN
        (IF Includes(query.link.s, SongMark) THEN "linksong"
         ELSE IF Includes(query.link.s, AlbumMark) THEN "linkalbum"
         ELSE IF Includes(query.link.s, LabelMark) THEN "linklabel"
         ELSE "linkother")
    ELSE "documentation"

\* The upstream type a branch asks for.
TypeOf(branch) ==
    CASE branch \in {"labels", "linklabel"} -> "musiclabelalbums"
      [] branch = "artistssongs" -> "artistTrackList"
      [] branch = "artistsalbums" -> "artistAlbumList"
      [] branch = "search" -> "search"
      [] branch = "linksong" -> "songDetail"
      [] branch = "linkalbum" -> "albumDetail"

\* The identifier a branch sends.
KeyOf(branch, query) ==
    CASE branch = "labels" -> query.labels.s
      [] branch = "artistssongs" -> query.artistssongsid.s
      [] branch = "artistsalbums" -> query.artistsalbumsid.s
      [] branch = "search" -> query.search.s
      [] OTHER -> extractIdFromUrl(query.link.s)

ListBranches == {"labels", "artistssongs", "artistsalbums", "search", "linklabel"}

\* The plan of a listing branch: page and limit are q.page || '0' and
\* q.limit || '10'.
PlanOf(branch, query) ==
    getPagination(Str(OrStr(query.page, <<48>>)), Str(OrStr(query.limit, <<49, 48>>)),
                  getBatchSize(TypeOf(branch)))

(***************************************************************************)
(* Inputs of the decoder.                                                  *)
(***************************************************************************)
\* 'https://a.b/hls/x/i.m3u8', 'https://a.b/s.mp4', 'hls/a/b/index.m3u8',
\* 'stream.gaana.com/hls/7/1.ts', 'http://g.co/a/b/' (one whole block), 'a/b'
Urls ==
    { <<104, 116, 116, 112, 115, 58, 47, 47, 97, 46, 98, 47, 104, 108, 115, 47,
        120, 47, 105, 46, 109, 51, 117, 56>>,
      <<104, 116, 116, 112, 115, 58, 47, 47, 97, 46, 98, 47, 115, 46, 109, 112, 52>>,
      <<104, 108, 115, 47, 97, 47, 98, 47, 105, 110, 100, 101, 120, 46, 109, 51,
        117, 56>>,
      <<115, 116, 114, 101, 97, 109, 46, 103, 97, 97, 110, 97, 46, 99, 111, 109,
        47, 104, 108, 115, 47, 55, 47, 49, 46, 116, 115>>,
      <<104, 116, 116, 112, 58, 47, 47, 103, 46, 99, 111, 47, 97, 47, 98, 47>>,
      <<97, 47, 98>> }

\* The bytes a decrypted text is made of here: 'h', 'l', 's', '/', 'a', and
\* two bytes outside 0x20-0x7E (0x01 and 0xE9).
RawBytes == {104, 108, 115, 47, 97, 1, 233}

RECURSIVE SeqsUpTo(_, _)
SeqsUpTo(S, n) ==
    IF n = 0 THEN {<<>>}
    ELSE LET shorter == SeqsUpTo(S, n - 1)
         IN  shorter \cup { Append(s, x) : s \in shorter, x \in S }

\* 'hls/' with bytes outside 0x20-0x7E inside it and text around it.
RawTexts ==
    SeqsUpTo(RawBytes, MaxRaw)
        \cup { pre \o <<104, 1, 108, 233, 115, 47>> \o post :
                 pre \in SeqsUpTo({97, 1}, 1), post \in SeqsUpTo({97, 1}, 1) }
        \cup { pre \o HlsMarker \o post :
                 pre \in SeqsUpTo(RawBytes, 1), post \in SeqsUpTo(RawBytes, 1) }

Offsets == 0..9

\* How a token came to be: made by the upstream from text under offset
\* (kind "url" or "raw"), or such a token damaged at arg.
Made(kind, offset, text) == [kind |-> kind, offset |-> offset, text |-> text, arg |-> 0]

Damaged(how, arg, base) ==
    [kind |-> how, offset |-> base.offset, text |-> base.text, arg |-> arg]

\* Tokens the upstream made: every URL under every offset, every raw text under
\* an offset its length picks.
MadeOrigins ==
    { Made("url", o, u) : o \in Offsets, u \in Urls }
        \cup { Made("raw", Len(r) % 10, r) : r \in RawTexts }

\* Tokens the upstream did not make this way: a made token cut to arg
\* characters ("cut"), with its first character replaced by arg ("first"), or
\* with '=' written at position arg ("pad").
DamagedOrigins ==
    LET base == { Made("url", o, u) : o \in Offsets, u \in Urls }
    IN  { Damaged("cut", n, b) : n \in 0..44, b \in base }
            \cup { Damaged("first", c, b) : c \in {120, 32, 43, 45}, b \in base }
            \cup { Damaged("pad", n, b) : n \in 20..40, b \in base }

TokenOf(o) ==
    LET t == MakeToken(o.offset, o.text)
    IN  CASE o.kind \in {"url", "raw"} -> t
          [] o.kind = "cut" -> SubSeq(t, 1, IF o.arg < Len(t) THEN o.arg ELSE Len(t))
          [] o.kind = "first" -> <<o.arg>> \o Tail(t)
          [] o.kind = "pad" -> [i \in 1..Len(t) |-> IF i = o.arg THEN 61 ELSE t[i]]

NotDecoded == [called |-> FALSE, threw |-> FALSE, ret |-> <<>>]

Outcome(r) == [called |-> TRUE, threw |-> r.threw, ret |-> r.ret]

(***************************************************************************)
(* The decoder on its own: Init draws the token, Decode applies it.        *)
(***************************************************************************)
PlanIdle ==
    /\ pageStr = Undefined
    /\ limitStr = Undefined
    /\ batchSize = 20
    /\ planned = FALSE
    /\ plan = NoPlan

\* No fetchJson in progress.
TimeIdle ==
    /\ timer = "none"
    /\ signal = "none"
    /\ failure = "none"

DecodeIdle ==
    /\ origin = Made("none", 0, <<>>)
    /\ token = <<>>
    /\ decoded = NotDecoded

\* c.req.query() with no parameter given; param is c.req.param('seokey').
NoQuery ==
    [labels |-> Undefined, artistssongsid |-> Undefined, artistsalbumsid |-> Undefined,
     search |-> Undefined, link |-> Undefined, page |-> Undefined, limit |-> Undefined,
     seokey |-> Undefined, url |-> Undefined, keyword |-> Undefined, id |-> Undefined,
     param |-> Undefined]

RootIdle ==
    /\ q = NoQuery
    /\ pc = "idle"
    /\ call = NoCall
    /\ fetches = 0
    /\ held = NoHeld
    /\ upTotal = 0
    /\ response = NoResponse
    /\ route = "none"
    /\ reply = JUndefined
    /\ trace = <<>>

NotApplied == [called |-> FALSE, threw |-> FALSE, ret |-> JUndefined]

JsonIdle ==
    /\ op = "none"
    /\ payload = JUndefined
    /\ winStart = 0
    /\ winEnd = 0
    /\ result = NotApplied

InitDecode ==
    /\ PlanIdle
    /\ TimeIdle
    /\ RootIdle
    /\ JsonIdle
    /\ origin \in MadeOrigins \cup DamagedOrigins
    /\ token = TokenOf(origin)
    /\ decoded = NotDecoded

Decode ==
    /\ ~decoded.called
    /\ decoded' = Outcome(decryptLink(token))
    /\ UNCHANGED <<planVars, origin, token, rootVars, jsonVars, timeVars>>

NextDecode == Decode

SpecDecode == InitDecode /\ [][NextDecode]_vars

(***************************************************************************)
(* The planner on its own: Init draws the arguments, Plan applies it.      *)
(***************************************************************************)
InitPlan ==
    /\ pageStr \in PageInputs
    /\ limitStr \in LimitInputs
    /\ batchSize \in BatchSizes
    /\ planned = FALSE
    /\ plan = NoPlan
    /\ DecodeIdle
    /\ TimeIdle
    /\ RootIdle
    /\ JsonIdle

Plan ==
    /\ ~planned
    /\ planned' = TRUE
    /\ plan' = getPagination(pageStr, limitStr, batchSize)
    /\ UNCHANGED <<pageStr, limitStr, batchSize, decodeVars, timeVars, rootVars, jsonVars>>

NextPlan == Plan

SpecPlan == InitPlan /\ [][NextPlan]_vars

(***************************************************************************)
(* Properties of getPagination, under SpecPlan.                            *)
(***************************************************************************)
\* The decimal numeral of an integer, as a query parameter.
Numeral(n) ==
    Str(IF n < 0 THEN <<45>> \o NatToString(0 - n) ELSE NatToString(n))

AbsentOrUnparsable(v) == ~v.def \/ v.s \in UnparsableStrings

\* C1: for page >= 0 and limit > 0 the plan is upstreamPageIndex =
\* floor(page * limit / batchSize), sliceStart = (page * limit) mod batchSize,
\* sliceEnd = sliceStart + limit; plan(0,10,20) = (0,0,10) and
\* plan(9,2,20) = (0,18,20).
C1_PlanFormula ==
    planned =>
        /\ \A p \in 0..MaxPage, l \in 1..MaxLimit :
              (pageStr = Numeral(p) /\ limitStr = Numeral(l)) =>
                  /\ plan.gaanaPage = Numeral((p * l) \div batchSize).s
                  /\ plan.sliceStart = (p * l) % batchSize
                  /\ plan.sliceEnd = plan.sliceStart + l
        /\ (pageStr = Str(<<48>>) /\ limitStr = Str(<<49, 48>>) /\ batchSize = 20) =>
              plan = [gaanaPage |-> <<48>>, sliceStart |-> 0, sliceEnd |-> 10]
        /\ (pageStr = Str(<<57>>) /\ limitStr = Str(<<50>>) /\ batchSize = 20) =>
              plan = [gaanaPage |-> <<48>>, sliceStart |-> 18, sliceEnd |-> 20]

\* plan(9, 2, 20) has been computed, and a plan whose upstream page is not 0.
C1_Witness ==
    /\ planned
    /\ pageStr = Str(<<57>>)
    /\ limitStr = Str(<<50>>)
    /\ batchSize = 20
    /\ plan.sliceStart = 18

\* C2: an absent or unparsable page or limit is never an error: the plan is
\* the one with the default (page 0, limit 10) in its place, and with both
\* absent or unparsable it is plan(0, 10, batchSize) = (0, 0, 10).
C2_MalformedDefaults ==
    planned =>
        /\ (AbsentOrUnparsable(pageStr) /\ AbsentOrUnparsable(limitStr)) =>
              plan = [gaanaPage |-> <<48>>, sliceStart |-> 0, sliceEnd |-> 10]
        /\ (AbsentOrUnparsable(pageStr) /\ ~AbsentOrUnparsable(limitStr)) =>
              plan = getPagination(Str(<<48>>), limitStr, batchSize)
        /\ (~AbsentOrUnparsable(pageStr) /\ AbsentOrUnparsable(limitStr)) =>
              plan = getPagination(pageStr, Str(<<49, 48>>), batchSize)

\* Page 3 with an unparsable limit ('x') has been planned as page 3, limit 10.
C2_Witness ==
    /\ planned
    /\ pageStr = Str(<<51>>)
    /\ limitStr = Str(<<120>>)
    /\ batchSize = 20
    /\ plan = [gaanaPage |-> <<49>>, sliceStart |-> 10, sliceEnd |-> 20]

\* C3: a limit that parses to an integer <= 0 gives the plan of limit 10.
C3_NonPositiveLimitDefaults ==
    (planned /\ \E n \in (0 - MaxNeg)..0 : limitStr = Numeral(n)) =>
        plan = getPagination(pageStr, Str(<<49, 48>>), batchSize)

IsNaturalNumeral(s) == s # <<>> /\ \A i \in 1..Len(s) : s[i] \in 48..57

\* C4: every plan is a well-formed window and batch index: sliceStart >= 0,
\* sliceEnd >= sliceStart, sliceStart < batchSize, and a non-negative
\* upstream page index.
C4_WellFormedWindow ==
    planned =>
        /\ plan.sliceStart >= 0
        /\ plan.sliceEnd >= plan.sliceStart
        /\ plan.sliceStart < batchSize
        /\ IsNaturalNumeral(plan.gaanaPage)

(***************************************************************************)
(* Properties of decryptLink, under SpecDecode.                            *)
(***************************************************************************)
FirstIsDigit(t) == t # <<>> /\ t[1] >= 48 /\ t[1] <= 57

\* The bytes the cipher yields for a token of 20 characters or more that
\* starts with a digit: the token less its first digit + 16 characters,
\* base64-decoded; decrypted when they are whole blocks.
CipherBytesOf(t) == BufferFromBase64(SubSeq(t, (t[1] - 48) + 17, Len(t)))

DecryptSucceeds(t) ==
    /\ Len(t) >= 20
    /\ FirstIsDigit(t)
    /\ Len(CipherBytesOf(t)) % 16 = 0

InAsciiPrintable(c) == c >= 32 /\ c <= 126

\* C7: a token that is empty, shorter than 20 characters, or does not start
\* with a decimal digit is returned unchanged.
C7_UndecodableUnchanged ==
    (decoded.called /\ (token = <<>> \/ Len(token) < 20 \/ ~FirstIsDigit(token)))
        => (~decoded.threw /\ decoded.ret = token)

\* A token of 20 characters or more whose first character is no digit, and
\* whose characters decode to whole cipher blocks, has been returned.
C7_Witness ==
    /\ decoded.called
    /\ Len(token) >= 20
    /\ ~FirstIsDigit(token)
    /\ Len(BufferFromBase64(token)) % 16 = 0
    /\ Len(BufferFromBase64(token)) > 0
    /\ decoded.ret = token

\* C8: decryptLink never raises, and when a step fails (the first character is
\* no digit, or the decoded ciphertext is not whole blocks) it returns the
\* token unchanged.
C8_NeverRaises ==
    decoded.called =>
        /\ ~decoded.threw
        /\ (Len(token) >= 20 /\ ~DecryptSucceeds(token)) => decoded.ret = token

\* A token that starts with a digit and whose ciphertext is not whole blocks
\* (the decipher raises) has been returned unchanged.
C8_Witness ==
    /\ decoded.called
    /\ Len(token) >= 20
    /\ FirstIsDigit(token)
    /\ Len(CipherBytesOf(token)) % 16 # 0
    /\ ~decoded.threw
    /\ decoded.ret = token

\* C9: after a successful decrypt the characters outside 0x20-0x7E are removed
\* first and 'hls/' is searched in what is left: the result is the CDN origin
\* followed by the cleaned text from its first 'hls/', else the cleaned text,
\* else (nothing left) the token.  The ciphertext is the token less its first
\* offset + 16 characters.
C9_StripThenSearch ==
    (decoded.called /\ DecryptSucceeds(token)) =>
        LET bytes == CbcDecrypt(CipherBytesOf(token), DEC_KEY, DEC_IV)
            clean == SelectSeq(bytes, InAsciiPrintable)
            hits == { i \in 1..Len(clean) :
                        /\ i + 3 <= Len(clean)
                        /\ SubSeq(clean, i, i + 3) = <<104, 108, 115, 47>> }
        IN  /\ ~decoded.threw
            /\ hits # {} =>
                 \E i \in hits :
                    /\ \A k \in hits : i <= k
                    /\ decoded.ret = CdnOrigin \o SubSeq(clean, i, Len(clean))
            /\ (hits = {} /\ clean # <<>>) => decoded.ret = clean
            /\ (hits = {} /\ clean = <<>>) => decoded.ret = token

\* A decrypted text that holds 'hls/' only once its non-printable bytes are
\* removed has been rewritten to the CDN origin.
C9_Witness ==
    /\ decoded.called
    /\ origin.kind = "raw"
    /\ ~Includes(origin.text, HlsMarker)
    /\ Includes(SelectSeq(origin.text, InAsciiPrintable), HlsMarker)
    /\ Len(decoded.ret) > Len(CdnOrigin)
    /\ SubSeq(decoded.ret, 1, Len(CdnOrigin)) = CdnOrigin

\* The part of a plaintext URL the decoder is to recover: the URL from its
\* first 'hls/' on, or the whole URL when it holds none.
PathSegment(u) ==
    IF \E i \in 1..Len(u) : i + 3 <= Len(u) /\ SubSeq(u, i, i + 3) = <<104, 108, 115, 47>>
    THEN LET i == CHOOSE i \in 1..Len(u) :
                    /\ i + 3 <= Len(u)
                    /\ SubSeq(u, i, i + 3) = <<104, 108, 115, 47>>
                    /\ \A k \in 1..(i - 1) : SubSeq(u, k, k + 3) # <<104, 108, 115, 47>>
         IN  SubSeq(u, i, Len(u))
    ELSE u

IsPlainUrl(u) == u # <<>> /\ \A i \in 1..Len(u) : InAsciiPrintable(u[i])

\* C10: the token the upstream makes from a plaintext URL (printable ASCII)
\* under any offset decodes to a string that contains the URL's path segment.
C10_RoundTrip ==
    (decoded.called /\ origin.kind \in {"url", "raw"} /\ IsPlainUrl(origin.text)) =>
        /\ ~decoded.threw
        /\ \E i \in 0..Len(decoded.ret) :
              /\ i + Len(PathSegment(origin.text)) <= Len(decoded.ret)
              /\ SubSeq(decoded.ret, i + 1, i + Len(PathSegment(origin.text)))
                    = PathSegment(origin.text)

\* A URL of more than one block, made under offset 7, has been decoded to a
\* string other than the token.
C10_Witness ==
    /\ decoded.called
    /\ origin.kind = "url"
    /\ origin.offset = 7
    /\ Len(origin.text) > 16
    /\ decoded.ret # token
    /\ decoded.ret = origin.text

(***************************************************************************)
(* The root handler's steps.                                               *)
(***************************************************************************)
\* A step of a handler; n is the number of list items the step has in hand
\* (or the status of a response).
Ev(ev, n) == [ev |-> ev, n |-> n]

RECURSIVE GroupItems(_, _)
\* The items of the gd arrays of the groups from the i-th on.
GroupItems(groups, i) ==
    IF i > Len(groups) THEN 0
    ELSE (IF Get(groups[i], "gd").t = "arr" THEN Len(Get(groups[i], "gd").a) ELSE 0)
             + GroupItems(groups, i + 1)

\* The items a payload lists: its entities and its groups' gd arrays.
ListSize(v) ==
    (IF Get(v, "entities").t = "arr" THEN Len(Get(v, "entities").a) ELSE 0)
        + (IF Get(v, "gr").t = "arr" THEN GroupItems(Get(v, "gr").a, 1) ELSE 0)

\* A handler that goes back to the upstream for the next batch when the
\* window runs past the one it planned.
RootFetch_NextBatchToo ==
    /\ route = "/"
    /\ pc = "received"
    /\ Branch(q) \notin {"linkother", "documentation"}
    /\ LET branch == Branch(q)
       IN  IF branch \in ListBranches
           THEN /\ call' = Call(TypeOf(branch), KeyOf(branch, q),
                                Str(PlanOf(branch, q).gaanaPage))
                /\ held' = Held(IF branch = "search" THEN "groups" ELSE "entities",
                                PlanOf(branch, q))
                /\ trace' = <<Ev("plan", 0), Ev("call", 0)>>
                /\ fetches' = IF PlanOf(branch, q).sliceEnd > getBatchSize(TypeOf(branch))
                              THEN fetches + 2 ELSE fetches + 1
           ELSE /\ call' = Call(TypeOf(branch), KeyOf(branch, q), Undefined)
                /\ held' = NoHeld
                /\ trace' = <<Ev("call", 0)>>
                /\ fetches' = fetches + 1
    /\ pc' = "awaiting"
    /\ UNCHANGED <<q, upTotal, response, route, reply, planVars, decodeVars, timeVars, jsonVars>>

\* The handler up to its await: a listing branch plans and issues the fetch
\* with the planned page; a song or album link issues the fetch.
RootFetch ==
    /\ route = "/"
    /\ pc = "received"
    /\ Branch(q) \notin {"linkother", "documentation"}
    /\ LET branch == Branch(q)
       IN  IF branch \in ListBranches
           THEN /\ call' = Call(TypeOf(branch), KeyOf(branch, q),
                                Str(PlanOf(branch, q).gaanaPage))
                /\ held' = Held(IF branch = "search" THEN "groups" ELSE "entities",
                                PlanOf(branch, q))
                /\ trace' = <<Ev("plan", 0), Ev("call", 0)>>
           ELSE /\ call' = Call(TypeOf(branch), KeyOf(branch, q), Undefined)
                /\ held' = NoHeld
                /\ trace' = <<Ev("call", 0)>>
    /\ fetches' = fetches + 1
    /\ pc' = "awaiting"
    /\ UNCHANGED <<q, upTotal, response, route, reply, planVars, decodeVars, timeVars, jsonVars>>

\* A link that is no song, album or label: 400, with no fetch.
RootUnsupportedLink ==
    /\ route = "/"
    /\ pc = "received"
    /\ Branch(q) = "linkother"
    /\ response' = Respond(400, ErrorBody)
    /\ trace' = <<Ev("respond", 400)>>
    /\ pc' = "done"
    /\ UNCHANGED <<q, call, fetches, held, upTotal, route, reply, planVars, decodeVars, timeVars,
                   jsonVars>>

\* No selector: the usage document.
RootDocumentation ==
    /\ route = "/"
    /\ pc = "received"
    /\ Branch(q) = "documentation"
    /\ response' = Respond(200, DocumentationBody)
    /\ trace' = <<Ev("respond", 200)>>
    /\ pc' = "done"
    /\ UNCHANGED <<q, call, fetches, held, upTotal, route, reply, planVars, decodeVars, timeVars,
                   jsonVars>>

\* What the handler makes of the upstream's JSON: decrypted, then windowed.
WindowBy(data, h) ==
    CASE h.slicer = "entities" ->
            Return(applySliceToEntities(data, h.sliceStart, h.sliceEnd))
      [] h.slicer = "groups" -> applySlice(data, h.sliceStart, h.sliceEnd)
      [] OTHER -> Return(data)

Windowed(rawData, h) == WindowBy(traverseAndDecrypt(rawData), h)

\* The steps after the await, in the order the expression
\* applySlice...(traverseAndDecrypt(rawData), sliceStart, sliceEnd) takes them.
ReplySteps(rawData, h) ==
    <<Ev("resolved", ListSize(rawData)), Ev("decrypt", ListSize(rawData))>>
        \o (IF h.slicer = "none" THEN <<>>
            ELSE <<Ev("window", ListSize(traverseAndDecrypt(rawData)))>>)

(***************************************************************************)
(* The upstream.  Its result set for a listing is items 0 .. upTotal - 1,  *)
(* served in batches of the size getBatchSize assumes for the type: batch  *)
(* k holds items k * size .. (k + 1) * size - 1.                           *)
(***************************************************************************)
Item(i) == JObj(<<Field("id", JNum(i))>>)

UpstreamBatch(type, page, total) ==
    LET size == getBatchSize(type)
        k == parseInt(page).val
        lo == k * size
        hi == IF (k + 1) * size < total THEN (k + 1) * size ELSE total
    IN  IF k < 0 \/ hi <= lo THEN <<>> ELSE [j \in 1..(hi - lo) |-> Item(lo + j - 1)]

\* 'https://a.b/hls/x/i.m3u8' as the upstream obfuscates it, under offset 3.
SampleToken ==
    MakeToken(3, <<104, 116, 116, 112, 115, 58, 47, 47, 97, 46, 98, 47, 104, 108,
                   115, 47, 120, 47, 105, 46, 109, 51, 117, 56>>)

\* The bodies the upstream may answer a call with.
UpstreamBodies(c, total) ==
    CASE c.type \in {"musiclabelalbums", "artistTrackList", "artistAlbumList"} ->
            { JObj(<<Field("count", JNum(total)),
                     Field("entities", JArr(UpstreamBatch(c.type, c.page.s, total)))>>),
              JObj(<<Field("status", JNum(0))>>),
              JNull }
      [] c.type = "search" ->
            { JObj(<<Field("gr", JArr(<<
                        JObj(<<Field("ty", JStr(<<84>>)),
                               Field("gd", JArr(UpstreamBatch(c.type, c.page.s, total)))>>),
                        JObj(<<Field("ty", JStr(<<65>>))>>) >>))>>),
              JObj(<<Field("gr", JArr(<<JNull>>))>>),
              JNull }
      [] OTHER ->
            { JObj(<<Field("tracks", JArr(<<
                        JObj(<<Field("urls", JObj(<<
                            Field("auto", JObj(<<Field("message", JStr(SampleToken))>>))>>))>>)
                     >>))>>),
              JNull }

\* The fetch resolves: the handler decrypts, windows and answers; an
\* exception in that is caught and answered with 500.
RootReply ==
    /\ route = "/"
    /\ pc = "awaiting"
    /\ \E rawData \in UpstreamBodies(call, upTotal) :
          \E out \in {Windowed(rawData, held)} :
              /\ response' = IF out.threw THEN Respond(500, ErrorBody)
                              ELSE Respond(200, out.ret)
              /\ reply' = rawData
              /\ trace' = trace \o ReplySteps(rawData, held)
                                \o <<Ev("respond", IF out.threw THEN 500 ELSE 200)>>
    /\ pc' = "done"
    /\ UNCHANGED <<q, call, fetches, held, upTotal, route, planVars, decodeVars, timeVars, jsonVars>>

\* A handler that issues the call again, once, when it rejects.
RootFetchFails_Retry ==
    /\ route = "/"
    /\ pc = "awaiting"
    /\ IF fetches < 2
       THEN /\ fetches' = fetches + 1
            /\ trace' = trace \o <<Ev("rejected", 0), Ev("call", 0)>>
            /\ UNCHANGED <<pc, response>>
       ELSE /\ response' = Respond(500, ErrorBody)
            /\ trace' = trace \o <<Ev("rejected", 0), Ev("respond", 500)>>
            /\ pc' = "done"
            /\ UNCHANGED fetches
    /\ UNCHANGED <<q, call, held, upTotal, route, reply, planVars, decodeVars, timeVars, jsonVars>>

\* The fetch rejects (network error, no JSON): caught, 500.
RootFetchFails ==
    /\ route = "/"
    /\ pc = "awaiting"
    /\ response' = Respond(500, ErrorBody)
    /\ trace' = trace \o <<Ev("rejected", 0), Ev("respond", 500)>>
    /\ pc' = "done"
    /\ UNCHANGED <<q, call, fetches, held, upTotal, route, reply, planVars, decodeVars, timeVars,
                   jsonVars>>

\* '/song/s1', '/album/a1', '/music-label/m1', '/artist/x1'
LinkInputs ==
    { Undefined,
      Str(<<47, 115, 111, 110, 103, 47, 115, 49>>),
      Str(<<47, 97, 108, 98, 117, 109, 47, 97, 49>>),
      Str(<<47, 109, 117, 115, 105, 99, 45, 108, 97, 98, 101, 108, 47, 109, 49>>),
      Str(<<47, 97, 114, 116, 105, 115, 116, 47, 120, 49>>) }

\* Absent or 'k7'.
IdInputs == {Undefined, Str(<<107, 55>>)}

RootPageInputs == {Undefined} \cup { Str(toString(n)) : n \in (0 - 1)..MaxRootPage }

RootLimitInputs == {Undefined} \cup { Str(toString(n)) : n \in (0 - 1)..MaxRootLimit }

UpstreamTotals == {0, 7, 23, 57}

InitRoot ==
    /\ PlanIdle
    /\ DecodeIdle
    /\ TimeIdle
    /\ JsonIdle
    /\ q \in [labels : IdInputs, artistssongsid : IdInputs, artistsalbumsid : IdInputs,
              search : IdInputs, link : LinkInputs,
              page : RootPageInputs, limit : RootLimitInputs,
              seokey : {Undefined}, url : {Undefined}, keyword : {Undefined},
              id : {Undefined}, param : {Undefined}]
    /\ pc = "received"
    /\ call = NoCall
    /\ fetches = 0
    /\ held = NoHeld
    /\ upTotal \in UpstreamTotals
    /\ response = NoResponse
    /\ route = "/"
    /\ reply = JUndefined
    /\ trace = <<>>

NextRoot ==
    \/ RootFetch
    \/ RootUnsupportedLink
    \/ RootDocumentation
    \/ RootReply
    \/ RootFetchFails

SpecRoot == InitRoot /\ [][NextRoot]_vars

(***************************************************************************)
(* Properties of a listing request, under SpecRoot.                        *)
(***************************************************************************)
\* The response carries a windowed list: 200, and the list the held windower
\* cut (entities, or the first group's gd).
HasList ==
    /\ pc = "done"
    /\ response.status = 200
    /\ held.slicer # "none"
    /\ Truthy(response.body)
    /\ IF held.slicer = "entities" THEN Get(response.body, "entities").t = "arr"
       ELSE /\ Get(response.body, "gr").t = "arr"
            /\ Len(Get(response.body, "gr").a) > 0
            /\ Get(Get(response.body, "gr").a[1], "gd").t = "arr"

WindowedList ==
    IF held.slicer = "entities" THEN Get(response.body, "entities").a
    ELSE Get(Get(response.body, "gr").a[1], "gd").a

\* C5: for page >= 0, limit > 0 and every batchSize > 0,
\* upstreamPageIndex * batchSize + sliceStart = page * limit; and the windowed
\* list of a listing request is the global items page * limit,
\* page * limit + 1, ... in upstream order.
C5_FirstItemBatch ==
    \A p \in 0..MaxRootPage, l \in 1..MaxRootLimit :
        (q.page = Numeral(p) /\ q.limit = Numeral(l)) =>
            /\ pc = "received" =>
                  \A b \in BatchSizes :
                      LET pl == getPagination(q.page, q.limit, b)
                      IN  /\ ~parseInt(pl.gaanaPage).nan
                          /\ parseInt(pl.gaanaPage).val * b + pl.sliceStart = p * l
            /\ HasList =>
                  \A j \in 1..Len(WindowedList) : WindowedList[j] = Item(p * l + j - 1)

\* Page 3 of 7 items each: the second upstream batch was asked for and the
\* list answered starts at global item 21.
C5_Witness ==
    /\ HasList
    /\ q.page = Str(<<51>>)
    /\ q.limit = Str(<<55>>)
    /\ call.page = Str(<<49>>)
    /\ Len(WindowedList) = 7
    /\ WindowedList[1] = Item(21)

\* C6: a listing request fetches one upstream batch; when sliceEnd exceeds
\* the batch size its windowed list holds at most batchSize - sliceStart
\* items, and it never holds more than limit items; page 1 of 15 items each on
\* batches of 20 is planned as (0, 15, 30) and answered with at most 5 items.
C6_KnownTruncation ==
    \A p \in 0..MaxRootPage, l \in 1..MaxRootLimit :
        (q.page = Numeral(p) /\ q.limit = Numeral(l) /\ held.slicer # "none") =>
            LET b == getBatchSize(call.type)
            IN  /\ pc = "done" => fetches = 1
                /\ (held.sliceEnd > b /\ HasList) =>
                      Len(WindowedList) <= b - held.sliceStart
                /\ HasList => Len(WindowedList) <= l
                /\ (p = 1 /\ l = 15 /\ b = 20) =>
                      /\ call.page = Str(<<48>>)
                      /\ held.sliceStart = 15
                      /\ held.sliceEnd = 30
                      /\ HasList => Len(WindowedList) <= 5

\* Page 1 of 15 items each, of a result set of more than 30 items: the list
\* answered is items 15 to 19, after one fetch.
C6_Witness ==
    /\ HasList
    /\ q.page = Str(<<49>>)
    /\ q.limit = Str(<<49, 53>>)
    /\ upTotal > 30
    /\ held.sliceEnd = 30
    /\ fetches = 1
    /\ Len(WindowedList) = 5
    /\ WindowedList[5] = Item(19)

(***************************************************************************)
(* FormattersService.traverseAndDecrypt, the song service's decryptor: the *)
(* urls shape only.  Its decryptLink is the same function over the same    *)
(* key and iv.                                                             *)
(***************************************************************************)
RECURSIVE FormattersTraverseAndDecrypt(_)
FormattersTraverseAndDecrypt(data) ==
    IF ~Truthy(data) \/ ~TypeofObject(data) THEN data
    ELSE IF data.t = "arr"
    THEN JArr([i \in 1..Len(data.a) |-> FormattersTraverseAndDecrypt(data.a[i])])
    ELSE LET shaped == ShapeA(data)
         IN  JObj([i \in 1..Len(shaped.o) |->
                      Field(shaped.o[i].k, FormattersTraverseAndDecrypt(shaped.o[i].x))])

(***************************************************************************)
(* The payload functions on their own: Init draws the function, the JSON   *)
(* value and the window; one action per function applies it.               *)
(***************************************************************************)
\* Message values: a token, a token too short to decode, '', and values that
\* are no strings.
Messages == {JStr(SampleToken), JStr(<<97, 98, 99>>), JStr(<<>>), JNum(5), JNull}

Tier(m) == JObj(<<Field("message", m), Field("bitrate", JNum(128))>>)

\* What a quality of a tier table may hold: a tier with a message, a tier
\* without one, and values that are no objects.
TierValues ==
    { Tier(m) : m \in Messages }
        \cup {JObj(<<Field("bitrate", JNum(64))>>), JStr(<<120>>), JArr(<<>>), JNull}

\* Tier tables: one or two qualities, and a name that is no quality.
TierTables ==
    { JObj(<<Field("auto", t)>>) : t \in TierValues }
        \cup { JObj(<<Field("high", Tier(JStr(SampleToken))), Field("low", t)>>) :
                 t \in TierValues }
        \cup { JObj(<<Field("medium", Tier(JStr(SampleToken))),
                      Field("hd", Tier(JStr(SampleToken)))>>),
               JObj(<<>>) }

\* What the urls or value field may hold that is no tier table.
NoTables == {JArr(<<Tier(JStr(SampleToken))>>), JStr(<<120>>), JNull, JNum(1)}

ShapeANodes ==
    { JObj(<<Field("id", JNum(1)), Field("urls", u)>>) : u \in TierTables \cup NoTables }

ShapeBNodes ==
    { JObj(<<Field("key", JStr(StreamUrlTag)), Field("value", v)>>) :
        v \in TierTables \cup NoTables }
        \cup { JObj(<<Field("key", JStr(<<107>>)), Field("value", v)>>) :
                 v \in {JObj(<<Field("auto", Tier(JStr(SampleToken)))>>)} }

\* A node of both shapes, and a shape inside a matched shape's tier.
MixedNodes ==
    { JObj(<<Field("key", JStr(StreamUrlTag)),
             Field("value", JObj(<<Field("high", Tier(JStr(SampleToken)))>>)),
             Field("urls", JObj(<<Field("auto", Tier(JStr(SampleToken)))>>))>>),
      JObj(<<Field("urls", JObj(<<Field("auto",
                JObj(<<Field("message", JStr(SampleToken)),
                       Field("urls", JObj(<<Field("low", Tier(JStr(SampleToken)))>>))>>))>>))>>),
      JObj(<<Field("key", JStr(StreamUrlTag)),
             Field("value", JObj(<<Field("auto",
                JObj(<<Field("message", JStr(SampleToken)),
                       Field("key", JStr(StreamUrlTag)),
                       Field("value", JObj(<<Field("low", Tier(JStr(SampleToken)))>>))>>))>>))>>) }

LinkNodes == ShapeANodes \cup ShapeBNodes \cup MixedNodes

\* Values with no link shape.
PlainValues ==
    { JNull, JNum(0), JNum(7), JStr(<<>>), JStr(SampleToken), JBool(FALSE), JBool(TRUE),
      JArr(<<>>), JObj(<<>>), JArr(<<JNum(1), JStr(<<97>>), JNull>>),
      JObj(<<Field("message", JStr(SampleToken))>>),
      JObj(<<Field("auto", JObj(<<Field("message", JStr(SampleToken))>>))>>),
      JObj(<<Field("title", JStr(<<97>>)), Field("count", JNum(2))>>) }

\* Link nodes at the root, in an array, under objects, and two side by side
\* (one of each shape at different depths).
DecryptPayloads ==
    PlainValues
        \cup LinkNodes
        \cup { JObj(<<Field("tracks", JArr(<<JNum(3), n>>)), Field("count", JNum(1))>>) :
                 n \in LinkNodes }
        \cup { JObj(<<Field("a", JObj(<<Field("b", JArr(<<JArr(<<n>>)>>))>>))>>) :
                 n \in LinkNodes }
        \cup { JObj(<<Field("tracks", JArr(<<a>>)), Field("meta", JObj(<<Field("s", b)>>))>>) :
                 a \in ShapeANodes, b \in {n \in ShapeBNodes : Get(n, "value").t = "obj"} }

MaxItems == 5

MaxWin == 6

\* Items 0 .. n - 1.
ItemList(n) == [j \in 1..n |-> Item(j - 1)]

\* Payloads with a flat list, with an entities field that is no array, and
\* with none.
FlatPayloads ==
    { JObj(<<Field("count", JNum(n)), Field("entities", JArr(ItemList(n))),
             Field("status", JNum(1))>>) : n \in 0..MaxItems }
        \cup { JObj(<<Field("entities", e), Field("count", JNum(0))>>) :
                 e \in {JStr(<<120>>), JNull, JNum(3), JObj(<<Field("0", JNum(1))>>)} }
        \cup { JObj(<<Field("count", JNum(0))>>) }

\* Groups: with a gd array, with none, and with a gd that is no array.
Groups ==
    { JObj(<<Field("ty", JStr(<<84>>)), Field("gd", JArr(ItemList(n)))>>) :
        n \in {0, 2, MaxItems} }
        \cup { JObj(<<Field("ty", JStr(<<65>>))>>),
               JObj(<<Field("gd", JStr(<<120>>)), Field("ty", JStr(<<66>>))>>) }

GroupedPayloads ==
    { JObj(<<Field("gr", JArr(<<g, h>>)), Field("srId", JNum(9))>>) :
        g \in Groups, h \in Groups }
        \cup { JObj(<<Field("gr", JArr(<<g>>))>>) : g \in Groups }
        \cup { JObj(<<Field("gr", JArr(<<>>))>>) }

\* A gr array with elements that are no objects, and a gr that is no array.
OddGroupedPayloads ==
    { JObj(<<Field("gr", JArr(<<x>>))>>) : x \in {JNull, JNum(1), JStr(<<120>>), JArr(<<>>)} }
        \cup { JObj(<<Field("gr", JArr(<<g, JNull>>))>>) : g \in Groups }
        \cup { JObj(<<Field("gr", x)>>) : x \in {JNull, JStr(<<120>>), JObj(<<>>)} }

\* Both lists in one payload.
BothPayloads ==
    { JObj(<<Field("gr", JArr(<<g>>)), Field("entities", JArr(ItemList(n)))>>) :
        g \in Groups, n \in {0, MaxItems} }

WindowPayloads ==
    FlatPayloads \cup GroupedPayloads \cup OddGroupedPayloads \cup BothPayloads
        \cup PlainValues \cup {JArr(ItemList(3))}

\* start and end as getPagination gives them; a negative limit or page makes
\* them negative.
WinRange == (0 - 1)..MaxWin

\* An outcome: what was returned, or that an exception was raised.
Applied(r) ==
    [called |-> TRUE, threw |-> r.threw, ret |-> IF r.threw THEN JUndefined ELSE r.ret]

InitJson ==
    /\ PlanIdle
    /\ DecodeIdle
    /\ TimeIdle
    /\ RootIdle
    /\ \/ /\ op \in {"traverseAndDecrypt", "FormattersService.traverseAndDecrypt"}
          /\ payload \in DecryptPayloads \cup OddGroupedPayloads
          /\ winStart = 0
          /\ winEnd = 0
       \/ /\ op \in {"applySlice", "applySliceToEntities"}
          /\ payload \in WindowPayloads
          /\ winStart \in WinRange
          /\ winEnd \in WinRange
    /\ result = NotApplied

ApplyTraverseAndDecrypt ==
    /\ op = "traverseAndDecrypt"
    /\ ~result.called
    /\ result' = Applied(Return(traverseAndDecrypt(payload)))
    /\ trace' = [i \in 1..Len(traverseAndDecryptCalls(payload, <<>>)) |->
                    Ev("decryptLink", traverseAndDecryptCalls(payload, <<>>)[i])]
    /\ UNCHANGED <<op, payload, winStart, winEnd, planVars, decodeVars, timeVars, q, pc, call,
                   fetches, held, upTotal, response, route, reply>>

ApplyFormattersTraverseAndDecrypt ==
    /\ op = "FormattersService.traverseAndDecrypt"
    /\ ~result.called
    /\ result' = Applied(Return(FormattersTraverseAndDecrypt(payload)))
    /\ UNCHANGED <<op, payload, winStart, winEnd, planVars, decodeVars, timeVars, rootVars>>

ApplySlice ==
    /\ op = "applySlice"
    /\ ~result.called
    /\ result' = Applied(applySlice(payload, winStart, winEnd))
    /\ UNCHANGED <<op, payload, winStart, winEnd, planVars, decodeVars, timeVars, rootVars>>

ApplySliceToEntities ==
    /\ op = "applySliceToEntities"
    /\ ~result.called
    /\ result' = Applied(Return(applySliceToEntities(payload, winStart, winEnd)))
    /\ UNCHANGED <<op, payload, winStart, winEnd, planVars, decodeVars, timeVars, rootVars>>

NextJson ==
    \/ ApplyTraverseAndDecrypt
    \/ ApplyFormattersTraverseAndDecrypt
    \/ ApplySlice
    \/ ApplySliceToEntities

SpecJson == InitJson /\ [][NextJson]_vars

(***************************************************************************)
(* Properties of the payload functions, under SpecJson.                    *)
(***************************************************************************)
QualityNames == {"auto", "high", "medium", "low"}

\* '?'
Blank == JStr(<<63>>)

IsTable(v) == v.t = "obj"

\* An object node with a recognized link shape: a urls object, or the key
\* 'stream_url' with a value object.
HasUrlsShape(v) ==
    /\ v.t = "obj"
    /\ \E i \in 1..Len(v.o) : v.o[i].k = "urls" /\ IsTable(v.o[i].x)

HasStreamUrlShape(v) ==
    /\ v.t = "obj"
    /\ \E i \in 1..Len(v.o) : v.o[i].k = "key" /\ v.o[i].x = JStr(StreamUrlTag)
    /\ \E i \in 1..Len(v.o) : v.o[i].k = "value" /\ IsTable(v.o[i].x)

\* A tier table with the message values of its quality tiers blanked.
BlankMessages(table) ==
    JObj([i \in 1..Len(table.o) |->
            IF table.o[i].k \in QualityNames /\ table.o[i].x.t = "obj"
            THEN Field(table.o[i].k,
                       JObj([j \in 1..Len(table.o[i].x.o) |->
                               IF table.o[i].x.o[j].k = "message"
                               THEN Field("message", Blank)
                               ELSE table.o[i].x.o[j]]))
            ELSE table.o[i]])

RECURSIVE Skeleton(_)
\* A value with every message value under a recognized shape blanked: what
\* is left is every field name, every array and every other value.
Skeleton(v) ==
    IF v.t = "arr" THEN JArr([i \in 1..Len(v.a) |-> Skeleton(v.a[i])])
    ELSE IF v.t = "obj"
    THEN JObj([i \in 1..Len(v.o) |->
            IF \/ v.o[i].k = "urls" /\ HasUrlsShape(v)
               \/ v.o[i].k = "value" /\ HasStreamUrlShape(v)
            THEN Field(v.o[i].k, Skeleton(BlankMessages(v.o[i].x)))
            ELSE Field(v.o[i].k, Skeleton(v.o[i].x))])
    ELSE v

RECURSIVE HasLinkShape(_)
HasLinkShape(v) ==
    \/ HasUrlsShape(v)
    \/ HasStreamUrlShape(v)
    \/ v.t = "arr" /\ \E i \in 1..Len(v.a) : HasLinkShape(v.a[i])
    \/ v.t = "obj" /\ \E i \in 1..Len(v.o) : HasLinkShape(v.o[i].x)

Decryptors == {"traverseAndDecrypt", "FormattersService.traverseAndDecrypt"}

\* C11: traverseAndDecrypt returns the value it was given with nothing
\* changed but message values under recognized link shapes: the same fields
\* in the same order, the same arrays; a value that is no object or array is
\* returned as it is, and so is a payload with no recognized link shape.
C11_DecryptFrame ==
    (result.called /\ op \in Decryptors) =>
        /\ ~result.threw
        /\ Skeleton(result.ret) = Skeleton(payload)
        /\ payload.t \notin {"obj", "arr"} => result.ret = payload
        /\ ~HasLinkShape(payload) => result.ret = payload

\* A payload with a link shape inside an array has been decrypted: the result
\* differs from it, in message values only.
C11_Witness ==
    /\ result.called
    /\ op = "traverseAndDecrypt"
    /\ Get(payload, "tracks").t = "arr"
    /\ HasLinkShape(payload)
    /\ result.ret # payload
    /\ Skeleton(result.ret) = Skeleton(payload)

\* Every quality tier of a tier table that had a non-empty message string m
\* holds decryptLink(m) in the table after.
TiersDecrypted(before, after) ==
    \A ql \in QualityNames :
        (/\ HasKey(before, ql)
         /\ Get(Get(before, ql), "message").t = "str"
         /\ Get(Get(before, ql), "message").s # <<>>)
            => Get(Get(after, ql), "message")
                   = JStr(decryptLink(Get(Get(before, ql), "message").s).ret)

RECURSIVE ShapesDecrypted(_, _)
\* At every object node of the value before, at any depth, that has a link
\* shape, the tiers are decrypted in the node at the same place after.
ShapesDecrypted(before, after) ==
    IF before.t = "arr"
    THEN /\ after.t = "arr"
         /\ Len(after.a) = Len(before.a)
         /\ \A i \in 1..Len(before.a) : ShapesDecrypted(before.a[i], after.a[i])
    ELSE IF before.t = "obj"
    THEN /\ after.t = "obj"
         /\ Len(after.o) = Len(before.o)
         /\ HasUrlsShape(before) => TiersDecrypted(Get(before, "urls"), Get(after, "urls"))
         /\ HasStreamUrlShape(before) =>
               TiersDecrypted(Get(before, "value"), Get(after, "value"))
         /\ \A i \in 1..Len(before.o) : ShapesDecrypted(before.o[i].x, after.o[i].x)
    ELSE TRUE

\* C12: after traverseAndDecrypt (either implementation), at every object node
\* at any depth with a urls object or with key 'stream_url' and a value
\* object, every quality tier that had a non-empty message m holds
\* decryptLink(m).
C12_EveryShapeDecrypted ==
    (result.called /\ op \in Decryptors) => ShapesDecrypted(payload, result.ret)

\* The same of the handlers' traverseAndDecrypt alone.
HandlersShapesDecrypted ==
    (result.called /\ op = "traverseAndDecrypt") => ShapesDecrypted(payload, result.ret)

\* The elements of a sequence at the 0-based indices [start, end) that it
\* has, for 0 <= start <= end.
Clamped(a, start, end) ==
    LET hi == IF end < Len(a) THEN end ELSE Len(a)
    IN  IF hi <= start THEN <<>> ELSE [j \in 1..(hi - start) |-> a[start + j]]

HasArray(v, k) ==
    v.t = "obj" /\ \E i \in 1..Len(v.o) : v.o[i].k = k /\ v.o[i].x.t = "arr"

\* after is before with the array under k replaced by list, and every other
\* field as it was.
OnlyListReplaced(before, after, k, list) ==
    /\ after.t = "obj"
    /\ Len(after.o) = Len(before.o)
    /\ \A i \in 1..Len(before.o) :
          /\ after.o[i].k = before.o[i].k
          /\ after.o[i].x = IF before.o[i].k = k THEN JArr(list) ELSE before.o[i].x

\* C13: applySliceToEntities, for 0 <= start <= end, replaces an entities
\* array by its elements at [start, end) clamped to its length, in order, with
\* no padding and no error, and leaves every other field; a payload with no
\* entities array is returned unchanged; [a,b,c,d,e] and (1,3) give [b,c].
C13_FlatWindow ==
    (result.called /\ op = "applySliceToEntities") =>
        /\ ~result.threw
        /\ (HasArray(payload, "entities") /\ 0 <= winStart /\ winStart <= winEnd) =>
              OnlyListReplaced(payload, result.ret, "entities",
                               Clamped(Get(payload, "entities").a, winStart, winEnd))
        /\ ~HasArray(payload, "entities") => result.ret = payload
        /\ (/\ HasArray(payload, "entities")
            /\ Get(payload, "entities").a = <<Item(0), Item(1), Item(2), Item(3), Item(4)>>
            /\ winStart = 1
            /\ winEnd = 3) => Get(result.ret, "entities").a = <<Item(1), Item(2)>>

\* Five entities windowed by (4, 6): the one element left, with no padding.
C13_Witness ==
    /\ result.called
    /\ op = "applySliceToEntities"
    /\ HasArray(payload, "entities")
    /\ Len(Get(payload, "entities").a) = 5
    /\ winStart = 4
    /\ winEnd = 6
    /\ Get(result.ret, "entities").a = <<Item(4)>>
    /\ Get(result.ret, "count") = JNum(5)

\* The gr field is an array whose elements are all objects.
HasGroups(v) ==
    /\ HasArray(v, "gr")
    /\ \A i \in 1..Len(Get(v, "gr").a) : Get(v, "gr").a[i].t = "obj"

\* after is the group before with its gd array, if it has one, replaced by
\* the elements at [start, end).
GroupWindowed(before, after, start, end) ==
    IF HasArray(before, "gd")
    THEN OnlyListReplaced(before, after, "gd", Clamped(Get(before, "gd").a, start, end))
    ELSE after = before

\* C14: applySlice, on a payload whose gr is an array of group objects and for
\* 0 <= start <= end, replaces the gd array of every group that has one by
\* its elements at [start, end), each group on its own; the groups' number
\* and order, groups with no gd array and every other field are unchanged.
C14_GroupedWindow ==
    (/\ result.called
     /\ op = "applySlice"
     /\ HasGroups(payload)
     /\ 0 <= winStart
     /\ winStart <= winEnd) =>
        /\ ~result.threw
        /\ result.ret.t = "obj"
        /\ Len(result.ret.o) = Len(payload.o)
        /\ \A i \in 1..Len(payload.o) :
              /\ result.ret.o[i].k = payload.o[i].k
              /\ payload.o[i].k # "gr" => result.ret.o[i].x = payload.o[i].x
        /\ Get(result.ret, "gr").t = "arr"
        /\ Len(Get(result.ret, "gr").a) = Len(Get(payload, "gr").a)
        /\ \A i \in 1..Len(Get(payload, "gr").a) :
              GroupWindowed(Get(payload, "gr").a[i], Get(result.ret, "gr").a[i],
                            winStart, winEnd)

\* Two groups of five and of two items windowed by (1, 4): three items of the
\* first and one of the second.
C14_Witness ==
    /\ result.called
    /\ op = "applySlice"
    /\ HasGroups(payload)
    /\ Len(Get(payload, "gr").a) = 2
    /\ winStart = 1
    /\ winEnd = 4
    /\ Get(Get(payload, "gr").a[1], "gd") = JArr(ItemList(5))
    /\ Get(Get(payload, "gr").a[2], "gd") = JArr(ItemList(2))
    /\ Get(Get(result.ret, "gr").a[1], "gd") = JArr(<<Item(1), Item(2), Item(3)>>)
    /\ Get(Get(result.ret, "gr").a[2], "gd") = JArr(<<Item(1)>>)

Windowers == {"applySlice", "applySliceToEntities"}

\* C15: a windower given a payload with both a grouped list (gr with gd
\* arrays) and a flat list (entities) slices both to [start, end), whichever
\* of the two windowers a route applies.
C15_BothListsWindowed ==
    (/\ result.called
     /\ op \in Windowers
     /\ HasGroups(payload)
     /\ HasArray(payload, "entities")
     /\ 0 <= winStart
     /\ winStart <= winEnd) =>
        /\ ~result.threw
        /\ Get(result.ret, "entities")
              = JArr(Clamped(Get(payload, "entities").a, winStart, winEnd))
        /\ \A i \in 1..Len(Get(payload, "gr").a) :
              GroupWindowed(Get(payload, "gr").a[i], Get(result.ret, "gr").a[i],
                            winStart, winEnd)

\* C16: traverseAndDecrypt, applySlice and applySliceToEntities return
\* normally on every JSON value (null, scalars, arrays, a gr array with null
\* or scalar elements, tiers that are scalars or arrays), and return a value
\* with no gr array, no entities array and no link shape as it is.
C16_TotalOverJson ==
    result.called =>
        /\ ~result.threw
        /\ (/\ ~HasArray(payload, "gr")
            /\ ~HasArray(payload, "entities")
            /\ ~HasLinkShape(payload)) => result.ret = payload

(***************************************************************************)
(* The /api routes of the same app.  They have no try/catch: an exception  *)
(* leaves the handler and the framework's default error handler answers    *)
(* 500 with a text body.                                                   *)
(***************************************************************************)
ApiDetailRoutes == {"/api/songs", "/api/albums"}

ApiListRoutes ==
    {"/api/labels/albums", "/api/search/songs", "/api/artists/songs", "/api/artists/albums"}

ApiRoutes == ApiDetailRoutes \cup ApiListRoutes

\* null, or a string: the last non-blank part of seokey || url when it holds
\* a '/', else all of it.
getSeokeyFromContext(query) ==
    LET rawInput == IF IsSet(query.seokey) THEN query.seokey ELSE query.url
    IN  IF ~IsSet(rawInput) THEN Undefined
        ELSE IF Includes(rawInput.s, <<47>>)
        THEN LET parts == SelectSeq(SplitOn(rawInput.s, 47, <<>>), NotBlank)
             IN  IF Len(parts) > 0 THEN Str(parts[Len(parts)]) ELSE Undefined
        ELSE rawInput

\* The parameter a route requires: seokey, keyword or id.
ApiKeyOf(path, query) ==
    CASE path \in {"/api/songs", "/api/albums", "/api/labels/albums"} ->
            getSeokeyFromContext(query)
      [] path = "/api/search/songs" -> query.keyword
      [] OTHER -> query.id

ApiTypeOf(path) ==
    CASE path = "/api/songs" -> "songDetail"
      [] path = "/api/albums" -> "albumDetail"
      [] path = "/api/labels/albums" -> "musiclabelalbums"
      [] path = "/api/search/songs" -> "search"
      [] path = "/api/artists/songs" -> "artistTrackList"
      [] path = "/api/artists/albums" -> "artistAlbumList"

\* getPagination(c.req.query('page'), c.req.query('limit'), 50 or 20)
ApiPlanOf(path, query) ==
    getPagination(query.page, query.limit, IF path = "/api/labels/albums" THEN 50 ELSE 20)

\* c.text('Internal Server Error', 500); the text is left out.
UncaughtBody == JStr(<<>>)

\* A route that asks the upstream before it tests its parameter.
ApiBadRequest_AfterFetch ==
    /\ route \in ApiRoutes
    /\ pc = "received"
    /\ ~IsSet(ApiKeyOf(route, q))
    /\ fetches' = fetches + 1
    /\ response' = Respond(400, ErrorBody)
    /\ trace' = <<Ev("call", 0), Ev("respond", 400)>>
    /\ pc' = "done"
    /\ UNCHANGED <<q, call, held, upTotal, route, reply, planVars, decodeVars, timeVars, jsonVars>>

\* if (!seokey) return c.json({ error: ... }, 400)
ApiBadRequest ==
    /\ route \in ApiRoutes
    /\ pc = "received"
    /\ ~IsSet(ApiKeyOf(route, q))
    /\ response' = Respond(400, ErrorBody)
    /\ trace' = <<Ev("respond", 400)>>
    /\ pc' = "done"
    /\ UNCHANGED <<q, call, fetches, held, upTotal, route, reply, planVars, decodeVars, timeVars,
                   jsonVars>>

\* Up to the await: a listing route plans and issues the fetch with the
\* planned page; a detail route issues the fetch.
ApiFetch ==
    /\ route \in ApiRoutes
    /\ pc = "received"
    /\ IsSet(ApiKeyOf(route, q))
    /\ IF route \in ApiListRoutes
       THEN /\ call' = Call(ApiTypeOf(route), ApiKeyOf(route, q).s,
                            Str(ApiPlanOf(route, q).gaanaPage))
            /\ held' = Held(IF route = "/api/search/songs" THEN "groups" ELSE "entities",
                            ApiPlanOf(route, q))
            /\ trace' = <<Ev("plan", 0), Ev("call", 0)>>
       ELSE /\ call' = Call(ApiTypeOf(route), ApiKeyOf(route, q).s, Undefined)
            /\ held' = NoHeld
            /\ trace' = <<Ev("call", 0)>>
    /\ fetches' = fetches + 1
    /\ pc' = "awaiting"
    /\ UNCHANGED <<q, upTotal, response, route, reply, planVars, decodeVars, timeVars, jsonVars>>

\* The fetch resolves: decrypted, windowed, answered; an exception in that is
\* not caught by the handler.
ApiReply ==
    /\ route \in ApiRoutes
    /\ pc = "awaiting"
    /\ \E rawData \in UpstreamBodies(call, upTotal) :
          \E out \in {Windowed(rawData, held)} :
              /\ response' = IF out.threw THEN Respond(500, UncaughtBody)
                              ELSE Respond(200, out.ret)
              /\ reply' = rawData
              /\ trace' = trace \o ReplySteps(rawData, held)
                                \o <<Ev("respond", IF out.threw THEN 500 ELSE 200)>>
    /\ pc' = "done"
    /\ UNCHANGED <<q, call, fetches, held, upTotal, route, planVars, decodeVars, timeVars, jsonVars>>

\* The fetch rejects: not caught by the handler.
ApiFetchFails ==
    /\ route \in ApiRoutes
    /\ pc = "awaiting"
    /\ response' = Respond(500, UncaughtBody)
    /\ trace' = trace \o <<Ev("rejected", 0), Ev("respond", 500)>>
    /\ pc' = "done"
    /\ UNCHANGED <<q, call, fetches, held, upTotal, route, reply, planVars, decodeVars, timeVars,
                   jsonVars>>

\* Absent, 'k7', '/song/s1' and '//' (no part that is not blank).
SeokeyInputs ==
    {Undefined, Str(<<107, 55>>), Str(<<47, 115, 111, 110, 103, 47, 115, 49>>),
     Str(<<47, 47>>)}

MaxApiPage == 3

\* Limits of the /api requests: absent, '-1', '7', '15', '30'.
ApiLimitInputs ==
    {Undefined, Str(<<45, 49>>), Str(<<55>>), Str(<<49, 53>>), Str(<<51, 48>>)}

ApiPageInputs == {Undefined} \cup { Str(toString(n)) : n \in 0..MaxApiPage }

InitApi ==
    /\ PlanIdle
    /\ DecodeIdle
    /\ TimeIdle
    /\ JsonIdle
    /\ route \in ApiRoutes
    /\ \E seokey \in SeokeyInputs, url \in {Undefined, Str(<<107, 55>>)},
          key \in IdInputs, page \in ApiPageInputs, limit \in ApiLimitInputs :
          q = [NoQuery EXCEPT !.seokey = seokey, !.url = url, !.keyword = key,
                              !.id = key, !.page = page, !.limit = limit]
    /\ pc = "received"
    /\ call = NoCall
    /\ fetches = 0
    /\ held = NoHeld
    /\ upTotal \in UpstreamTotals
    /\ response = NoResponse
    /\ reply = JUndefined
    /\ trace = <<>>

NextApi ==
    \/ ApiBadRequest
    \/ ApiFetch
    \/ ApiReply
    \/ ApiFetchFails

(***************************************************************************)
(* The earlier version of the app (src/unnamed/part_000): the upstream     *)
(* page is the request's page, a search is cut to its first limit items by *)
(* limitResults, and every handler has its try/catch.                      *)
(***************************************************************************)
\* limitResults(data, limit): limit is the query parameter, absent or a string.
limitResults(data, limit) ==
    IF ~Truthy(data) \/ ~IsSet(limit) THEN Return(data)
    ELSE LET limitNum == parseInt(limit.s)
         IN  IF limitNum.nan \/ limitNum.val <= 0 THEN Return(data)
             ELSE LET gr == Get(data, "gr")
                  IN  IF Truthy(gr) /\ gr.t = "arr"
                      THEN IF \E i \in 1..Len(gr.a) : gr.a[i].t = "null"
                           THEN Throw
                           ELSE Return(Set(data, "gr",
                                    JArr([i \in 1..Len(gr.a) |->
                                            SliceGroup(gr.a[i], 0, limitNum.val)])))
                      ELSE Return(data)

OldRoot == "part_000 /"

OldApiRoutes ==
    {"part_000 /api/songs", "part_000 /api/albums", "part_000 /api/search/songs",
     "part_000 /api/artists/songs", "part_000 /api/artists/albums",
     "part_000 /api/labels/albums"}

OldRoutes == {OldRoot} \cup OldApiRoutes

\* What a request comes to: the upstream type it asks for, "bad" (400) or
\* "documentation".
OldTypeOf(path, query) ==
    CASE path = OldRoot ->
            (IF IsSet(query.search) THEN "search"
             ELSE IF IsSet(query.link)
             THEN (IF Includes(query.link.s, SongMark) THEN "songDetail"
                   ELSE IF Includes(query.link.s, AlbumMark) THEN "albumDetail"
                   ELSE IF Includes(query.link.s, LabelMark) THEN "musiclabelalbums"
                   ELSE "bad")
             ELSE "documentation")
      [] path = "part_000 /api/songs" ->
            IF IsSet(getSeokeyFromContext(query)) THEN "songDetail" ELSE "bad"
      [] path = "part_000 /api/albums" ->
            IF IsSet(getSeokeyFromContext(query)) THEN "albumDetail" ELSE "bad"
      [] path = "part_000 /api/labels/albums" ->
            IF IsSet(getSeokeyFromContext(query)) THEN "musiclabelalbums" ELSE "bad"
      [] path = "part_000 /api/search/songs" ->
            IF IsSet(query.keyword) THEN "search" ELSE "bad"
      [] path = "part_000 /api/artists/songs" ->
            IF IsSet(query.id) THEN "artistTrackList" ELSE "bad"
      [] path = "part_000 /api/artists/albums" ->
            IF IsSet(query.id) THEN "artistAlbumList" ELSE "bad"

OldKeyOf(path, query) ==
    CASE path = OldRoot ->
            IF IsSet(query.search) THEN query.search.s ELSE extractIdFromUrl(query.link.s)
      [] path = "part_000 /api/search/songs" -> query.keyword.s
      [] path \in {"part_000 /api/artists/songs", "part_000 /api/artists/albums"} ->
            query.id.s
      [] OTHER -> getSeokeyFromContext(query).s

\* The page sent: none for a song or an album, '0' for a label link, else
\* c.req.query('page') || '0'.
OldPageOf(path, query) ==
    IF OldTypeOf(path, query) \in {"songDetail", "albumDetail"} THEN Undefined
    ELSE IF path = OldRoot /\ OldTypeOf(path, query) = "musiclabelalbums" THEN Str(<<48>>)
    ELSE Str(OrStr(query.page, <<48>>))

OldBadRequest ==
    /\ route \in OldRoutes
    /\ pc = "received"
    /\ OldTypeOf(route, q) = "bad"
    /\ response' = Respond(400, ErrorBody)
    /\ trace' = <<Ev("respond", 400)>>
    /\ pc' = "done"
    /\ UNCHANGED <<q, call, fetches, held, upTotal, route, reply, planVars, decodeVars, timeVars,
                   jsonVars>>

OldDocumentation ==
    /\ route \in OldRoutes
    /\ pc = "received"
    /\ OldTypeOf(route, q) = "documentation"
    /\ response' = Respond(200, DocumentationBody)
    /\ trace' = <<Ev("respond", 200)>>
    /\ pc' = "done"
    /\ UNCHANGED <<q, call, fetches, held, upTotal, route, reply, planVars, decodeVars, timeVars,
                   jsonVars>>

OldFetch ==
    /\ route \in OldRoutes
    /\ pc = "received"
    /\ OldTypeOf(route, q) \notin {"bad", "documentation"}
    /\ call' = Call(OldTypeOf(route, q), OldKeyOf(route, q), OldPageOf(route, q))
    /\ trace' = <<Ev("call", 0)>>
    /\ fetches' = fetches + 1
    /\ pc' = "awaiting"
    /\ UNCHANGED <<q, held, upTotal, response, route, reply, planVars, decodeVars, timeVars,
                   jsonVars>>

\* limitResults gets to its loop over data.gr, where it slices.
limitSlices(data, limit) ==
    /\ Truthy(data)
    /\ IsSet(limit)
    /\ ~parseInt(limit.s).nan
    /\ parseInt(limit.s).val > 0
    /\ Get(data, "gr").t = "arr"

\* The steps of limitResults(rawData, limit) and of traverseAndDecrypt of its
\* result.
OldSearchSteps(rawData, limit, limitedData) ==
    <<Ev("resolved", ListSize(rawData))>>
        \o (IF limitSlices(rawData, limit) THEN <<Ev("window", ListSize(rawData))>>
            ELSE <<>>)
        \o (IF limitedData.threw THEN <<Ev("respond", 500)>>
            ELSE <<Ev("decrypt", ListSize(limitedData.ret)), Ev("respond", 200)>>)

\* The fetch resolves.  A search is cut by limitResults and then decrypted;
\* every other payload is decrypted.  An exception is caught: 500.
OldReply ==
    /\ route \in OldRoutes
    /\ pc = "awaiting"
    /\ \E rawData \in UpstreamBodies(call, upTotal) :
          /\ reply' = rawData
          /\ IF call.type = "search"
             THEN \E limitedData \in {limitResults(rawData, q.limit)} :
                      /\ response' = IF limitedData.threw THEN Respond(500, ErrorBody)
                                      ELSE Respond(200, traverseAndDecrypt(limitedData.ret))
                      /\ trace' = trace \o OldSearchSteps(rawData, q.limit, limitedData)
             ELSE /\ response' = Respond(200, traverseAndDecrypt(rawData))
                  /\ trace' = trace \o <<Ev("resolved", ListSize(rawData)),
                                         Ev("decrypt", ListSize(rawData)),
                                         Ev("respond", 200)>>
    /\ pc' = "done"
    /\ UNCHANGED <<q, call, fetches, held, upTotal, route, planVars, decodeVars, timeVars, jsonVars>>

OldFetchFails ==
    /\ route \in OldRoutes
    /\ pc = "awaiting"
    /\ response' = Respond(500, ErrorBody)
    /\ trace' = trace \o <<Ev("rejected", 0), Ev("respond", 500)>>
    /\ pc' = "done"
    /\ UNCHANGED <<q, call, fetches, held, upTotal, route, reply, planVars, decodeVars, timeVars,
                   jsonVars>>

InitOld ==
    /\ PlanIdle
    /\ DecodeIdle
    /\ TimeIdle
    /\ JsonIdle
    /\ route \in OldRoutes
    /\ \E seokey \in {Undefined, Str(<<107, 55>>)}, key \in IdInputs, link \in LinkInputs,
          page \in ApiPageInputs, limit \in ApiLimitInputs :
          q = [NoQuery EXCEPT !.seokey = seokey, !.keyword = key, !.search = key,
                              !.id = key, !.link = link, !.page = page,
                              !.limit = limit]
    /\ pc = "received"
    /\ call = NoCall
    /\ fetches = 0
    /\ held = NoHeld
    /\ upTotal \in UpstreamTotals
    /\ response = NoResponse
    /\ reply = JUndefined
    /\ trace = <<>>

NextOld ==
    \/ OldBadRequest
    \/ OldDocumentation
    \/ OldFetch
    \/ OldReply
    \/ OldFetchFails

(***************************************************************************)
(* The song service (the second app of src/src/index.ts): handleGetSong,   *)
(* DetailsService.getSongInfo and FormattersService.                       *)
(***************************************************************************)
SongRoutes == {"song /api/songs", "song /api/songs/:seokey"}

\* pathParam || c.req.query('url') || c.req.query('seokey')
SongInput(query) ==
    IF IsSet(query.param) THEN query.param
    ELSE IF IsSet(query.url) THEN query.url
    ELSE query.seokey

\* validationSchemas.seokey: 1 to 500 characters, not blank, none of < > ' " &
ValidSeokey(str) ==
    /\ Len(str) >= 1
    /\ Len(str) <= 500
    /\ ~IsBlank(str)
    /\ \A i \in 1..Len(str) : str[i] \notin {60, 62, 39, 34, 38}

\* 'http', 'http://', 'https://'
HttpMark == <<104, 116, 116, 112>>

HttpSchemes ==
    {<<104, 116, 116, 112, 58, 47, 47>>, <<104, 116, 116, 112, 115, 58, 47, 47>>}

\* extractSeokey(input), for an input that is no URL or is
\* http(s)://host/path: null when the path has no part.  new URL raises on an
\* input that starts with 'http' and has no scheme separator, and the input is
\* returned.
extractSeokey(input) ==
    IF input = <<>> THEN Undefined
    ELSE IF StartsAt(input, HttpMark, 0)
    THEN IF \E scheme \in HttpSchemes :
               StartsAt(input, scheme, 0) /\ Len(input) > Len(scheme)
         THEN LET scheme == CHOOSE sc \in HttpSchemes :
                                StartsAt(input, sc, 0) /\ Len(input) > Len(sc)
                  rest == Substring(input, Len(scheme))
                  pathname == IF Includes(rest, <<47>>)
                              THEN Substring(rest, IndexOf(rest, <<47>>))
                              ELSE <<47>>
                  parts == SelectSeq(SplitOn(pathname, 47, <<>>), LAMBDA part : part # <<>>)
              IN  IF Len(parts) > 0 THEN Str(parts[Len(parts)]) ELSE Undefined
         ELSE Str(input)
    ELSE Str(input)

\* { error: 'Song not found' }; the text is left out.
\* getSongInfo's result for what fetchJson resolved with.
getSongInfo(fetched) ==
    IF ~Truthy(fetched) \/ ~TypeofObject(fetched) THEN ErrorBody
    ELSE LET tracks == Get(fetched, "tracks")
         IN  IF ~Truthy(tracks) \/ tracks.t # "arr" \/ Len(tracks.a) = 0 THEN ErrorBody
             ELSE FormattersTraverseAndDecrypt(tracks.a[1])

\* No input, or one the schema rejects, or a URL with no path part: 400.
SongRejected(query) ==
    \/ ~IsSet(SongInput(query))
    \/ ~ValidSeokey(SongInput(query).s)
    \/ ~IsSet(extractSeokey(SongInput(query).s))

SongBadRequest ==
    /\ route \in SongRoutes
    /\ pc = "received"
    /\ SongRejected(q)
    /\ response' = Respond(400, ErrorBody)
    /\ trace' = <<Ev("respond", 400)>>
    /\ pc' = "done"
    /\ UNCHANGED <<q, call, fetches, held, upTotal, route, reply, planVars, decodeVars, timeVars,
                   jsonVars>>

SongFetch ==
    /\ route \in SongRoutes
    /\ pc = "received"
    /\ ~SongRejected(q)
    /\ call' = Call("songDetail", extractSeokey(SongInput(q).s).s, Undefined)
    /\ trace' = <<Ev("call", 0)>>
    /\ fetches' = fetches + 1
    /\ pc' = "awaiting"
    /\ UNCHANGED <<q, held, upTotal, response, route, reply, planVars, decodeVars, timeVars,
                   jsonVars>>

\* What the upstream may answer a song with: also no track, a track with an
\* error field, and a track with a stream_url node.
SongBodies ==
    UpstreamBodies([type |-> "songDetail"], 0)
        \cup { JObj(<<Field("tracks", JArr(<<>>))>>),
               JObj(<<Field("tracks", JArr(<<JObj(<<Field("error", JStr(<<120>>))>>)>>))>>),
               JObj(<<Field("tracks", JArr(<<
                   JObj(<<Field("key", JStr(StreamUrlTag)),
                          Field("value", JObj(<<Field("auto",
                              JObj(<<Field("message", JStr(SampleToken))>>))>>))>>)>>))>>),
               JNum(3) }

\* fetchJson resolves: if (songInfo.error) 404 else 200.
SongReply ==
    /\ route \in SongRoutes
    /\ pc = "awaiting"
    /\ \E fetched \in SongBodies :
          \E songInfo \in {getSongInfo(fetched)} :
              /\ reply' = fetched
              /\ response' = Respond(IF Truthy(Get(songInfo, "error")) THEN 404 ELSE 200,
                                     songInfo)
              /\ trace' = trace \o <<Ev("resolved", 0), Ev("decrypt", 0),
                                     Ev("respond",
                                        IF Truthy(Get(songInfo, "error")) THEN 404
                                        ELSE 200)>>
    /\ pc' = "done"
    /\ UNCHANGED <<q, call, fetches, held, upTotal, route, planVars, decodeVars, timeVars, jsonVars>>

\* fetchJson raises (network error, no JSON, the 5 s timeout): the handler's
\* catch answers 500.
SongFetchFails ==
    /\ route \in SongRoutes
    /\ pc = "awaiting"
    /\ response' = Respond(500, ErrorBody)
    /\ trace' = trace \o <<Ev("rejected", 0), Ev("respond", 500)>>
    /\ pc' = "done"
    /\ UNCHANGED <<q, call, fetches, held, upTotal, route, reply, planVars, decodeVars, timeVars,
                   jsonVars>>

\* Absent, 'k7', '<', ' ', 'http://g.co/song/s1', 'http://g.co', 'httpx'.
SongInputs ==
    {Undefined, Str(<<107, 55>>), Str(<<60>>), Str(<<32>>),
     Str(<<104, 116, 116, 112, 58, 47, 47, 103, 46, 99, 111, 47, 115, 111, 110, 103, 47,
           115, 49>>),
     Str(<<104, 116, 116, 112, 58, 47, 47, 103, 46, 99, 111>>),
     Str(<<104, 116, 116, 112, 120>>)}

InitSong ==
    /\ PlanIdle
    /\ DecodeIdle
    /\ TimeIdle
    /\ JsonIdle
    /\ \/ /\ route = "song /api/songs"
          /\ \E seokey \in SongInputs, url \in SongInputs :
                q = [NoQuery EXCEPT !.seokey = seokey, !.url = url]
       \/ /\ route = "song /api/songs/:seokey"
          /\ \E param \in SongInputs \ {Undefined}, seokey \in SongInputs :
                q = [NoQuery EXCEPT !.param = param, !.seokey = seokey]
    /\ pc = "received"
    /\ call = NoCall
    /\ fetches = 0
    /\ held = NoHeld
    /\ upTotal = 0
    /\ response = NoResponse
    /\ reply = JUndefined
    /\ trace = <<>>

NextSong ==
    \/ SongBadRequest
    \/ SongFetch
    \/ SongReply
    \/ SongFetchFails

(***************************************************************************)
(* Every route: one request, on any route of the three apps.               *)
(***************************************************************************)
InitServe == InitRoot \/ InitApi \/ InitOld \/ InitSong

NextServe == NextRoot \/ NextApi \/ NextOld \/ NextSong

SpecServe == InitServe /\ [][NextServe]_vars


(***************************************************************************)
(* Properties of a request on any route, under SpecServe.                  *)
(***************************************************************************)
\* The selectors of the root handler a query supplies.
Selectors(query) ==
    { k \in {"labels", "artistssongsid", "artistsalbumsid", "search", "link"} :
        query[k].def }

\* The held window runs past the end of the batch the call asked for.
SpansTwoBatches == held.slicer # "none" /\ held.sliceEnd > getBatchSize(call.type)

\* C17: a request, on any route and any branch (several selectors supplied
\* together included), makes at most one call to the upstream; a listing
\* request whose window spans two upstream batches has made exactly one call
\* from its fetch on, and none before it.
C17_AtMostOneCall ==
    /\ fetches <= 1
    /\ pc = "received" => fetches = 0
    /\ call # NoCall => fetches = 1
    /\ SpansTwoBatches => fetches = 1

\* A root request with two selectors whose window spans two batches has been
\* answered with a list, after one call.
C17_Witness ==
    /\ route = "/"
    /\ pc = "done"
    /\ Cardinality(Selectors(q)) >= 2
    /\ SpansTwoBatches
    /\ response.status = 200
    /\ HasList
    /\ fetches = 1

\* The steps of the request so far hold the step ev.
Took(ev) == \E i \in 1..Len(trace) : trace[i].ev = ev

\* C18: on every route, once the upstream call has failed the request is
\* over with a 500 whose body is the generic error, the call was made once
\* and not again, and nothing was decrypted or windowed: no upstream payload
\* is in hand and the body is none of a handler's results.
C18_FailureNotRetried ==
    Took("rejected") =>
        /\ pc = "done"
        /\ fetches = 1
        /\ response.status = 500
        /\ response.body \in {ErrorBody, UncaughtBody}
        /\ reply = JUndefined
        /\ ~Took("resolved") /\ ~Took("decrypt") /\ ~Took("window")
        /\ Len(SelectSeq(trace, LAMBDA e : e.ev = "call")) = 1

\* A listing route with no try/catch of its own whose call failed has
\* answered 500 after its one call.
C18_Witness ==
    /\ route \in ApiListRoutes
    /\ held.slicer # "none"
    /\ Took("rejected")
    /\ fetches = 1
    /\ response = Respond(500, UncaughtBody)

\* The place of the first step ev among the steps so far, 0 when not taken.
Pos(ev) ==
    IF Took(ev) THEN CHOOSE i \in 1..Len(trace) :
                        /\ trace[i].ev = ev
                        /\ \A k \in 1..(i - 1) : trace[k].ev # ev
    ELSE 0

\* A request that asks the upstream for a list and cuts it: a windowed
\* branch or route of src/src/index.ts, a search of part_000.
ListingRequest ==
    \/ held.slicer # "none"
    \/ route \in OldRoutes /\ call.type = "search"

\* The steps of a listing request are in the order plan (where the handler
\* plans), call, resolution, decryption, window; the call carries the planned
\* page; and decryption runs over all the items of the fetched batch.
StepsInOrder ==
    ListingRequest =>
        /\ (Took("call") /\ held.slicer # "none") =>
              /\ Took("plan") /\ Pos("plan") < Pos("call")
              /\ call.page =
                    Str(getPagination(q.page, q.limit, getBatchSize(call.type)).gaanaPage)
        /\ Took("decrypt") =>
              /\ Took("resolved") /\ Pos("call") < Pos("resolved")
              /\ Pos("resolved") < Pos("decrypt")
              /\ trace[Pos("decrypt")].n = ListSize(reply)
        /\ Took("window") => Took("decrypt") /\ Pos("decrypt") < Pos("window")

\* The routes of src/src/index.ts keep the order.
HandlersStepsInOrder == route \in ({"/"} \cup ApiRoutes) => StepsInOrder

\* C19: in a listing request the plan is computed before the call, which
\* carries the planned page; the call completes before decryption starts;
\* and the payload is decrypted, the whole fetched batch, before any list of
\* it is sliced.
C19_PlanCallDecryptWindow == StepsInOrder

(***************************************************************************)
(* Several requests in flight.  A handler runs from its start to its await *)
(* and from the await's outcome to its response without interruption; the  *)
(* handlers of other requests run in between.  Here q, pc, call, fetches,  *)
(* held, reply, response and route are functions of the request.           *)
(***************************************************************************)
MaxRequests == 2

Requests == 1..MaxRequests

\* One variable of the module for all the invocations.
Slot_ModuleLevel(r) == 1

\* Where a handler's invocation keeps its { gaanaPage, sliceStart, sliceEnd }:
\* in constants of the invocation.
Slot(r) == r

\* The requests in flight: on the root route a search of page 1 by 15, a
\* label by 7, an artist's songs and a search together, a song link, an
\* unsupported link and no selector; on the song route a seokey and '<'.
ConcRequests ==
    { [route |-> "/", q |-> [NoQuery EXCEPT !.search = Str(<<107, 55>>),
                                            !.page = Str(<<49>>),
                                            !.limit = Str(<<49, 53>>)]],
      [route |-> "/", q |-> [NoQuery EXCEPT !.labels = Str(<<107, 55>>),
                                            !.limit = Str(<<55>>)]],
      [route |-> "/", q |-> [NoQuery EXCEPT !.artistssongsid = Str(<<107, 55>>),
                                            !.search = Str(<<107, 55>>),
                                            !.page = Str(<<50>>),
                                            !.limit = Str(<<55>>)]],
      [route |-> "/", q |-> [NoQuery EXCEPT !.link =
                                Str(<<47, 115, 111, 110, 103, 47, 115, 49>>)]],
      [route |-> "/", q |-> [NoQuery EXCEPT !.link =
                                Str(<<47, 97, 114, 116, 105, 115, 116, 47, 120, 49>>)]],
      [route |-> "/", q |-> NoQuery],
      [route |-> "song /api/songs", q |-> [NoQuery EXCEPT !.seokey = Str(<<107, 55>>)]],
      [route |-> "song /api/songs", q |-> [NoQuery EXCEPT !.url = Str(<<60>>)]] }

InitConc ==
    /\ PlanIdle
    /\ DecodeIdle
    /\ TimeIdle
    /\ JsonIdle
    /\ \E rs \in [Requests -> ConcRequests] :
          /\ route = [r \in Requests |-> rs[r].route]
          /\ q = [r \in Requests |-> rs[r].q]
    /\ pc = [r \in Requests |-> "received"]
    /\ call = [r \in Requests |-> NoCall]
    /\ fetches = [r \in Requests |-> 0]
    /\ held = [r \in Requests |-> NoHeld]
    /\ upTotal \in {7, 57}
    /\ response = [r \in Requests |-> NoResponse]
    /\ reply = [r \in Requests |-> JUndefined]
    /\ trace = <<>>

\* The root handler of request r up to its await.
ConcRootFetch(r) ==
    /\ route[r] = "/"
    /\ pc[r] = "received"
    /\ Branch(q[r]) \notin {"linkother", "documentation"}
    /\ LET branch == Branch(q[r])
       IN  IF branch \in ListBranches
           THEN /\ call' = [call EXCEPT ![r] =
                                Call(TypeOf(branch), KeyOf(branch, q[r]),
                                     Str(PlanOf(branch, q[r]).gaanaPage))]
                /\ held' = [held EXCEPT ![Slot(r)] =
                                Held(IF branch = "search" THEN "groups" ELSE "entities",
                                     PlanOf(branch, q[r]))]
           ELSE /\ call' = [call EXCEPT ![r] =
                                Call(TypeOf(branch), KeyOf(branch, q[r]), Undefined)]
                /\ held' = [held EXCEPT ![Slot(r)] = NoHeld]
    /\ fetches' = [fetches EXCEPT ![r] = @ + 1]
    /\ pc' = [pc EXCEPT ![r] = "awaiting"]
    /\ UNCHANGED <<q, upTotal, response, route, reply, trace, planVars, decodeVars, timeVars,
                   jsonVars>>

\* The root handler of request r answers with no fetch: 400 for an
\* unsupported link, the usage document for no selector.
ConcRootAnswer(r) ==
    /\ route[r] = "/"
    /\ pc[r] = "received"
    /\ Branch(q[r]) \in {"linkother", "documentation"}
    /\ response' = [response EXCEPT ![r] =
                        IF Branch(q[r]) = "linkother" THEN Respond(400, ErrorBody)
                        ELSE Respond(200, DocumentationBody)]
    /\ pc' = [pc EXCEPT ![r] = "done"]
    /\ UNCHANGED <<q, call, fetches, held, upTotal, route, reply, trace, planVars,
                   decodeVars, timeVars, jsonVars>>

\* The response to what the handler made of the payload.
Answer(out) == IF out.threw THEN Respond(500, ErrorBody) ELSE Respond(200, out.ret)

\* The fetch of request r resolves: its handler decrypts, windows, answers.
ConcRootReply(r) ==
    /\ route[r] = "/"
    /\ pc[r] = "awaiting"
    /\ \E rawData \in UpstreamBodies(call[r], upTotal) :
          /\ response' = [response EXCEPT ![r] = Answer(Windowed(rawData, held[Slot(r)]))]
          /\ reply' = [reply EXCEPT ![r] = rawData]
    /\ pc' = [pc EXCEPT ![r] = "done"]
    /\ UNCHANGED <<q, call, fetches, held, upTotal, route, trace, planVars, decodeVars, timeVars,
                   jsonVars>>

\* The fetch of request r rejects: its handler's catch answers 500.
ConcRootFetchFails(r) ==
    /\ route[r] = "/"
    /\ pc[r] = "awaiting"
    /\ response' = [response EXCEPT ![r] = Respond(500, ErrorBody)]
    /\ pc' = [pc EXCEPT ![r] = "done"]
    /\ UNCHANGED <<q, call, fetches, held, upTotal, route, reply, trace, planVars,
                   decodeVars, timeVars, jsonVars>>

\* handleGetSong of request r: 400.
ConcSongBadRequest(r) ==
    /\ route[r] \in SongRoutes
    /\ pc[r] = "received"
    /\ SongRejected(q[r])
    /\ response' = [response EXCEPT ![r] = Respond(400, ErrorBody)]
    /\ pc' = [pc EXCEPT ![r] = "done"]
    /\ UNCHANGED <<q, call, fetches, held, upTotal, route, reply, trace, planVars,
                   decodeVars, timeVars, jsonVars>>

\* handleGetSong of request r up to the await in detailsService.getSongInfo.
ConcSongFetch(r) ==
    /\ route[r] \in SongRoutes
    /\ pc[r] = "received"
    /\ ~SongRejected(q[r])
    /\ call' = [call EXCEPT ![r] =
                    Call("songDetail", extractSeokey(SongInput(q[r]).s).s, Undefined)]
    /\ fetches' = [fetches EXCEPT ![r] = @ + 1]
    /\ pc' = [pc EXCEPT ![r] = "awaiting"]
    /\ UNCHANGED <<q, held, upTotal, response, route, reply, trace, planVars, decodeVars, timeVars,
                   jsonVars>>

\* The response to getSongInfo's result.
SongAnswer(songInfo) ==
    Respond(IF Truthy(Get(songInfo, "error")) THEN 404 ELSE 200, songInfo)

\* fetchJson of request r resolves.
ConcSongReply(r) ==
    /\ route[r] \in SongRoutes
    /\ pc[r] = "awaiting"
    /\ \E fetched \in SongBodies :
          /\ response' = [response EXCEPT ![r] = SongAnswer(getSongInfo(fetched))]
          /\ reply' = [reply EXCEPT ![r] = fetched]
    /\ pc' = [pc EXCEPT ![r] = "done"]
    /\ UNCHANGED <<q, call, fetches, held, upTotal, route, trace, planVars, decodeVars, timeVars,
                   jsonVars>>

\* fetchJson of request r raises.
ConcSongFetchFails(r) ==
    /\ route[r] \in SongRoutes
    /\ pc[r] = "awaiting"
    /\ response' = [response EXCEPT ![r] = Respond(500, ErrorBody)]
    /\ pc' = [pc EXCEPT ![r] = "done"]
    /\ UNCHANGED <<q, call, fetches, held, upTotal, route, reply, trace, planVars,
                   decodeVars, timeVars, jsonVars>>

NextConc ==
    \E r \in Requests :
        \/ ConcRootFetch(r)
        \/ ConcRootAnswer(r)
        \/ ConcRootReply(r)
        \/ ConcRootFetchFails(r)
        \/ ConcSongBadRequest(r)
        \/ ConcSongFetch(r)
        \/ ConcSongReply(r)
        \/ ConcSongFetchFails(r)

SpecConc == InitConc /\ [][NextConc]_vars

(***************************************************************************)
(* Properties of requests in flight together, under SpecConc.              *)
(***************************************************************************)
\* The window the root handler plans for a query, by itself.
SoloHeld(query) ==
    IF Branch(query) \in ListBranches
    THEN Held(IF Branch(query) = "search" THEN "groups" ELSE "entities",
              PlanOf(Branch(query), query))
    ELSE NoHeld

\* The response of a request that ran alone with these parameters and this
\* outcome of its upstream call: body the upstream's reply, or undefined when
\* the call failed.
Solo(rt, query, body) ==
    IF rt = "/"
    THEN CASE Branch(query) = "linkother" -> Respond(400, ErrorBody)
           [] Branch(query) = "documentation" -> Respond(200, DocumentationBody)
           [] body = JUndefined -> Respond(500, ErrorBody)
           [] OTHER -> Answer(Windowed(body, SoloHeld(query)))
    ELSE CASE SongRejected(query) -> Respond(400, ErrorBody)
           [] body = JUndefined -> Respond(500, ErrorBody)
           [] OTHER -> SongAnswer(getSongInfo(body))

\* A request served by itself is answered as Solo says.
HandlersSolo ==
    (route \in ({"/"} \cup SongRoutes) /\ pc = "done") => response = Solo(route, q, reply)

\* C20: however the handlers of the requests in flight interleave at their
\* upstream calls, each request's response is the one it gets alone with the
\* same parameters and the same upstream reply, and the window a suspended
\* request holds is the one planned from its own parameters.
C20_NoInterference ==
    \A r \in Requests :
        /\ pc[r] = "done" => response[r] = Solo(route[r], q[r], reply[r])
        /\ (pc[r] = "awaiting" /\ route[r] = "/") => held[r] = SoloHeld(q[r])

\* While the first request is suspended at its call with a window of its
\* own, the second, with another window, has been answered with its list.
C20_Witness ==
    /\ pc[1] = "awaiting"
    /\ pc[2] = "done"
    /\ held[1].slicer = "groups"
    /\ held[2].slicer = "entities"
    /\ held[1] # held[2]
    /\ response[2].status = 200
    /\ Get(response[2].body, "entities").t = "arr"
    /\ Len(Get(response[2].body, "entities").a) = 7

(***************************************************************************)
(* Rejected requests, under SpecServe.                                     *)
(***************************************************************************)
\* The request lacks what its route requires: the identifier or keyword of
\* an /api route, a song, album or label URL as the link of a root request,
\* an input the song handler accepts.
RejectedInput ==
    CASE route = "/" -> Branch(q) = "linkother"
      [] route \in ApiRoutes -> ~IsSet(ApiKeyOf(route, q))
      [] route \in SongRoutes -> SongRejected(q)
      [] OTHER -> OldTypeOf(route, q) = "bad"

\* C24: a request that lacks its required identifier or keyword, or whose
\* root link is no song, album or label URL, is answered 400 and the upstream
\* is never called for it; and no request answered 400 has called it.
C24_RejectedMakesNoCall ==
    /\ RejectedInput =>
          /\ pc \in {"received", "done"}
          /\ fetches = 0
          /\ call = NoCall
          /\ ~Took("call")
          /\ pc = "done" => response.status = 400
    /\ response.status = 400 => fetches = 0 /\ RejectedInput

\* An /api route given a seokey with no part that is not blank ('//') has
\* answered 400 with no call.
C24_Witness ==
    /\ route = "/api/songs"
    /\ q.seokey = Str(<<47, 47>>)
    /\ pc = "done"
    /\ response.status = 400
    /\ fetches = 0

(***************************************************************************)
(* Paging through a result set, under SpecPlan.                            *)
(***************************************************************************)
\* The upstream items a plan covers: from GlobalStart up to, not including,
\* GlobalEnd, counted over the batches of size b.
GlobalStart(pl, b) == parseInt(pl.gaanaPage).val * b + pl.sliceStart

GlobalEnd(pl, b) == parseInt(pl.gaanaPage).val * b + pl.sliceEnd

\* C22: when the limit (10 when absent) divides the batch size, no page is
\* truncated (sliceEnd <= batchSize), page p covers the items p * limit up to
\* (p + 1) * limit, and page p + 1 starts where page p ends: the pages are
\* adjacent and disjoint and cover every item once.
C22_DividingLimitCovers ==
    planned =>
        \A p \in 0..MaxPage, l \in 1..MaxLimit :
            (/\ pageStr = Numeral(p)
             /\ limitStr = Numeral(l) \/ (l = 10 /\ ~limitStr.def)
             /\ batchSize % l = 0) =>
                LET next == getPagination(Numeral(p + 1), limitStr, batchSize)
                IN  /\ plan.sliceStart >= 0
                    /\ plan.sliceEnd <= batchSize
                    /\ GlobalStart(plan, batchSize) = p * l
                    /\ GlobalEnd(plan, batchSize) = (p + 1) * l
                    /\ next.sliceEnd <= batchSize
                    /\ GlobalStart(next, batchSize) = GlobalEnd(plan, batchSize)
                    /\ GlobalEnd(next, batchSize) > GlobalStart(next, batchSize)

\* Page 4 with no limit over batches of 50 has been planned: the last window
\* of the first batch, ending at the batch's end.
C22_Witness ==
    /\ planned
    /\ pageStr = Str(<<52>>)
    /\ ~limitStr.def
    /\ batchSize = 50
    /\ plan = [gaanaPage |-> <<48>>, sliceStart |-> 40, sliceEnd |-> 50]

(***************************************************************************)
(* The calls of decryptLink within one traversal, under SpecJson.          *)
(***************************************************************************)
RECURSIVE At(_, _)
\* The value at a path of a JSON value.
At(v, path) ==
    IF path = <<>> THEN v
    ELSE IF v.t = "arr"
    THEN (IF \E i \in 1..Len(v.a) : ToString(i - 1) = path[1]
          THEN At(v.a[CHOOSE i \in 1..Len(v.a) : ToString(i - 1) = path[1]], Tail(path))
          ELSE JUndefined)
    ELSE At(Get(v, path[1]), Tail(path))

RECURSIVE MessageCount(_)
RECURSIVE MessageCountFrom(_, _)
\* The message properties a JSON value holds, at any depth.
MessageCount(v) ==
    IF v.t \notin {"obj", "arr"} THEN 0
    ELSE (IF HasKey(v, "message") THEN 1 ELSE 0) + MessageCountFrom(Properties(v), 1)

MessageCountFrom(props, i) ==
    IF i > Len(props) THEN 0
    ELSE MessageCount(props[i].x) + MessageCountFrom(props, i + 1)

\* C23: one traversal of a JSON tree returns, and gives no message to
\* decryptLink twice: the paths of its calls are all different, each is the
\* path of a message of the payload, and the result holds there the payload's
\* message decoded once.
C23_EachMessageOnce ==
    (op = "traverseAndDecrypt" /\ result.called) =>
        /\ ~result.threw
        /\ \A i, j \in 1..Len(trace) : trace[i].n = trace[j].n => i = j
        /\ Len(trace) <= MessageCount(payload)
        /\ \A i \in 1..Len(trace) :
              /\ trace[i].ev = "decryptLink"
              /\ trace[i].n[Len(trace[i].n)] = "message"
              /\ Truthy(At(payload, trace[i].n))
              /\ At(result.ret, trace[i].n) = decryptLinkValue(At(payload, trace[i].n))

\* A node of both shapes, inside an array, has been traversed: one call for
\* the message under urls and one for the message under value.
C23_Witness ==
    /\ op = "traverseAndDecrypt"
    /\ result.called
    /\ Len(trace) = 2
    /\ trace[1].n = <<"tracks", "1", "urls", "auto", "message">>
    /\ trace[2].n = <<"tracks", "1", "value", "high", "message">>
    /\ At(result.ret, trace[1].n) # At(payload, trace[1].n)
    /\ At(result.ret, trace[2].n) # At(payload, trace[2].n)

(***************************************************************************)
(* BaseService.fetchJson under handleGetSong: the call with its timeout.   *)
(* The timer's callback runs as a task of its own, whenever the timer is   *)
(* armed and its time is up; the code after an await runs, to the next     *)
(* await or to the handler's response, before any other task.              *)
(***************************************************************************)
\* clearTimeout(timeoutId): an armed timer is cancelled; one that fired stays
\* fired.
clearTimeout(t) == IF t = "armed" THEN "cleared" ELSE t

\* 'Request timeout'
RequestTimeoutText ==
    <<82, 101, 113, 117, 101, 115, 116, 32, 116, 105, 109, 101, 111, 117, 116>>

\* { error: err.message }: the message of the timeout; that of any other
\* error is left out.
FailureBody(message) ==
    JObj(<<Field("error",
                 JStr(IF message = "Request timeout" THEN RequestTimeoutText ELSE <<>>))>>)

\* handleGetSong to the await of fetch: the controller is made, the timer is
\* armed, the fetch is issued with the controller's signal.
FetchJsonStart ==
    /\ route \in SongRoutes
    /\ pc = "received"
    /\ ~SongRejected(q)
    /\ call' = Call("songDetail", extractSeokey(SongInput(q).s).s, Undefined)
    /\ fetches' = fetches + 1
    /\ timer' = "armed"
    /\ signal' = "clear"
    /\ trace' = <<Ev("armed", 0), Ev("call", 0)>>
    /\ pc' = "fetching"
    /\ UNCHANGED <<q, held, upTotal, response, route, reply, failure, planVars,
                   decodeVars, jsonVars>>

\* The timeout is up: () => controller.abort()
TimerFires ==
    /\ timer = "armed"
    /\ timer' = "fired"
    /\ signal' = "aborted"
    /\ trace' = Append(trace, Ev("fired", 0))
    /\ UNCHANGED <<q, pc, call, fetches, held, upTotal, response, route, reply, failure,
                   planVars, decodeVars, jsonVars>>

\* The success path with no clearTimeout after the fetch.
FetchResolves_NoClear ==
    /\ pc = "fetching"
    /\ signal = "clear"
    /\ pc' = "reading"
    /\ UNCHANGED <<q, call, fetches, held, upTotal, response, route, reply, trace, timeVars,
                   planVars, decodeVars, jsonVars>>

\* The fetch resolves with a response: clearTimeout(timeoutId), then the
\* await of response.json().
FetchResolves ==
    /\ pc = "fetching"
    /\ signal = "clear"
    /\ timer' = clearTimeout(timer)
    /\ trace' = Append(trace, Ev("cleared", 0))
    /\ pc' = "reading"
    /\ UNCHANGED <<q, call, fetches, held, upTotal, response, route, reply, signal,
                   failure, planVars, decodeVars, jsonVars>>

\* The fetch rejects (network error): the catch clears the timer and throws
\* the error on; handleGetSong's catch answers 500.
FetchRejects ==
    /\ pc = "fetching"
    /\ signal = "clear"
    /\ timer' = clearTimeout(timer)
    /\ failure' = "error"
    /\ response' = Respond(500, FailureBody("error"))
    /\ trace' = trace \o <<Ev("cleared", 0), Ev("exit", 0), Ev("respond", 500)>>
    /\ pc' = "done"
    /\ UNCHANGED <<q, call, fetches, held, upTotal, route, reply, signal, planVars,
                   decodeVars, jsonVars>>

\* The aborted fetch rejects with an AbortError: the catch clears the timer
\* and throws Error('Request timeout'); handleGetSong's catch answers 500.
FetchAborted ==
    /\ pc = "fetching"
    /\ signal = "aborted"
    /\ timer' = clearTimeout(timer)
    /\ failure' = "Request timeout"
    /\ response' = Respond(500, FailureBody("Request timeout"))
    /\ trace' = trace \o <<Ev("cleared", 0), Ev("exit", 0), Ev("respond", 500)>>
    /\ pc' = "done"
    /\ UNCHANGED <<q, call, fetches, held, upTotal, route, reply, signal, planVars,
                   decodeVars, jsonVars>>

\* response.json() resolves: fetchJson returns, getSongInfo formats, the
\* handler answers 404 or 200.
JsonParsed ==
    /\ pc = "reading"
    /\ \E fetched \in SongBodies :
          /\ reply' = fetched
          /\ response' = SongAnswer(getSongInfo(fetched))
          /\ trace' = trace \o <<Ev("exit", 0),
                                 Ev("respond", SongAnswer(getSongInfo(fetched)).status)>>
    /\ pc' = "done"
    /\ UNCHANGED <<q, call, fetches, held, upTotal, route, timeVars, planVars, decodeVars,
                   jsonVars>>

\* response.json() rejects (the body is no JSON): the catch clears the timer
\* again and throws the error on.
JsonFails ==
    /\ pc = "reading"
    /\ timer' = clearTimeout(timer)
    /\ failure' = IF signal = "aborted" THEN "Request timeout" ELSE "error"
    /\ response' = Respond(500, FailureBody(IF signal = "aborted" THEN "Request timeout"
                                            ELSE "error"))
    /\ trace' = trace \o <<Ev("cleared", 0), Ev("exit", 0), Ev("respond", 500)>>
    /\ pc' = "done"
    /\ UNCHANGED <<q, call, fetches, held, upTotal, route, reply, signal, planVars,
                   decodeVars, jsonVars>>

NextTimeout ==
    \/ SongBadRequest
    \/ FetchJsonStart
    \/ TimerFires
    \/ FetchResolves
    \/ FetchRejects
    \/ FetchAborted
    \/ JsonParsed
    \/ JsonFails

\* An aborted fetch does reject: its rejection is a task the event loop runs.
SpecTimeout == InitSong /\ [][NextTimeout]_vars /\ WF_vars(FetchAborted)

(***************************************************************************)
(* Properties of the call with its timeout, under SpecTimeout.             *)
(***************************************************************************)
\* The state of the timer and of the call agree: the timer fires only
\* while the fetch is awaited and aborts it; a call that has exited has its
\* timer cleared or fired before the exit; a fired timer makes the failure
\* 'Request timeout' and the response a 500 that carries it.
TimerCleared ==
    /\ timer = "fired" =>
          /\ signal = "aborted"
          /\ pc \in {"fetching", "done"}
          /\ reply = JUndefined
          /\ pc = "done" =>
                /\ failure = "Request timeout"
                /\ response = Respond(500, FailureBody("Request timeout"))
    /\ failure = "Request timeout" => Took("fired")
    /\ Took("exit") =>
          /\ timer \in {"cleared", "fired"}
          /\ Took("fired") => Pos("fired") < Pos("exit")
    /\ (pc = "done" /\ fetches = 1) => Took("exit")
    /\ pc = "reading" => timer = "cleared"

\* C21: when the timeout is up before the upstream has answered, the call
\* is aborted and fails with 'Request timeout', which handleGetSong answers
\* with a 500; and on every exit of fetchJson (return, timeout, other
\* failure) the timer has been cleared or has fired before, so that none
\* fires after the call is over.
C21_TimeoutAbortsAndClears ==
    /\ []TimerCleared
    /\ (timer = "fired") ~> (pc = "done" /\ failure = "Request timeout"
                                /\ response.status = 500)

\* The timer fired during the fetch and the handler has answered 500 with
\* 'Request timeout'.
C21_Witness ==
    /\ pc = "done"
    /\ timer = "fired"
    /\ failure = "Request timeout"
    /\ response = Respond(500, FailureBody("Request timeout"))
    /\ Took("exit")


==============================================================================
